---------------------------- MODULE Spec2Model ----------------------------
(***************************************************************************)
(* Hypercube merge of per-process sorted lists (mpi_primes_sort.c and the  *)
(* mpi_primes.c text appended to linked_list_dbl.c).  One MPI process per  *)
(* rank; every rank runs main -> Print_primes -> Merge_lists.              *)
(* Further programs of the repository, each with its own specification:    *)
(* the sorted doubly linked list of linked_list_dbl.c (SpecList) and the   *)
(* lock-protected counter of many_mutexes.c and many_sems.c (SpecThreads), *)
(* the per-thread random number generator of pth_rand_safe.c (SpecRand),   *)
(* the prime programs from their command line on (SpecGetN), and the block  *)
(* distributed vector update of pth_daxpy.c (SpecDaxpy).                   *)
(***************************************************************************)
EXTENDS Integers, Sequences, FiniteSets

\* Largest number of MPI processes explored.
MaxP == 4
\* Longest contribution a rank brings to Merge_lists.
MaxLen == 2
\* Largest command-line value n of the prime programs.
MaxN == 12
\* Longest argument list and largest element of a stand-alone Merge call.
MergeMaxLen == 3
MergeMaxVal == 5
\* Number of different strings given to the linked list, and the nodes the
\* heap holds.
MaxStrings == 5
MaxNodes == 3
\* Largest thread_count and largest n of many_mutexes, many_sems and
\* pth_rand_safe.
MaxThreads == 2
MaxIter == 2

VARIABLES
  p,            \* number of processes in comm
  n,            \* command-line value n of the program run (0: none)
  my_contrib,   \* my_contrib[r]: the sorted list rank r brings (my_primes)
  pc,           \* pc[r]: where rank r is
  counts,       \* counts[r]: rank r's copy of counts[0..p-1]
  recv_counts,  \* recv_counts[r]: rank r's copy of recv_counts[0..p-1]
  my_size, my_recv_size, curr_size, done, partner, bitmask, recv_count,
  status,       \* status[r]: element count of the last message r received
  my_list, temp, recv_list,   \* pointers: "NULL" or the name of a block
  mem,          \* mem[r][blk]: the initialised prefix of block blk of rank r
  live,         \* live[r]: blocks malloc'ed and not yet freed
  msgs,         \* messages posted by MPI_Send and not yet received
  eager,        \* whether MPI_Send buffers the message and returns at once
  list_p, size_p,  \* out arguments of Merge_lists, per rank
  printed       \* what rank 0 printed in Print_primes

\* linked_list_dbl.c
VARIABLES
  h_p, t_p,     \* list.h_p and list.t_p: NULL or the address of a node
  nodes,        \* nodes[a]: the struct list_node_s at address a
  inserted,     \* the strings inserted and not removed since (history)
  ret,          \* return value of the last call of Member
  command,      \* the last command main read ("none": program not run,
                \* "start": none read yet)
  was_in        \* whether the string of the last command was in inserted
                \* before the command (history)

listVars == <<h_p, t_p, nodes, inserted, ret, command, was_in>>

\* many_mutexes.c and many_sems.c
VARIABLES
  prog,         \* the program run: "none", "many_mutexes", "many_sems" or
                \* "pth_rand_safe"
  thread_count, total,
  mutex,        \* NoThread, or the thread that holds the mutex
  sem,          \* value of the semaphore
  thread,       \* loop variable of main
  main_pc,      \* where main is
  t_pc,         \* t_pc[t]: where thread t is
  t_i,          \* t_i[t]: loop variable i of Lock_and_unlock in thread t
  loaded,       \* loaded[t]: the value of total thread t read for total++
  reported      \* the total main printed

threadVars == <<prog, thread_count, total, mutex, sem, thread, main_pc, t_pc,
                t_i, loaded, reported>>

\* pth_rand_safe.c
VARIABLES
  state,        \* state[a]: the unsigned at address a (the variable state of
                \* the thread whose Thread_work frame holds it)
  z,            \* z[t]: the local z of My_random in thread t
  output           \* output[t]: the values thread t printed, in order

randVars == <<state, z, output>>

\* The command line of the prime programs
VARIABLES
  mpi_prog,     \* the prime program run: "none", "mpi_primes_sort" or
                \* "mpi_primes" (the text appended to linked_list_dbl.c)
  argc,         \* argc of main
  argv1         \* <<k, v>>: strtol(argv[1], NULL, 10) is k * 2^32 + v, with
                \* v an int

inputVars == <<mpi_prog, argc, argv1>>

\* pth_daxpy.c
VARIABLES
  x_vec,        \* the vector x, indexed from 0
  y_vec,        \* the vector y, indexed from 0
  alpha,        \* the scalar
  y_read,       \* the vector y as main read it
  y_stores      \* y_stores[i]: how many times y[i] has been stored to

daxpyVars == <<x_vec, y_vec, alpha, y_read, y_stores>>

vars == <<p, n, my_contrib, pc, counts, recv_counts, my_size, my_recv_size,
          curr_size, done, partner, bitmask, recv_count, status, my_list,
          temp, recv_list, mem, live, msgs, eager, list_p, size_p,
          printed, listVars, threadVars, randVars,
          inputVars, daxpyVars>>

\* The variables of Merge_lists and main of the prime programs but n.
mpiVars == <<p, my_contrib, pc, counts, recv_counts, my_size, my_recv_size,
             curr_size, done, partner, bitmask, recv_count, status, my_list,
             temp, recv_list, mem, live, msgs, eager, list_p, size_p, printed>>

Ranks == 0 .. (p - 1)

\* An out argument, or printed, is <<>> until written and <<v>> afterwards.
Unset == <<>>

\* The null pointer of the linked list; its nodes live at 1 .. MaxNodes.
NULL == 0

Addrs == 1 .. MaxNodes

\* A block of the heap that holds no node.
FreeNode == [data |-> <<>>, prev_p |-> NULL, next_p |-> NULL]

\* The linked list program is not run.
NoList ==
  /\ h_p = NULL /\ t_p = NULL
  /\ nodes = [a \in Addrs |-> FreeNode]
  /\ inserted = {}
  /\ ret = 0
  /\ command = "none"
  /\ was_in = FALSE

\* No MPI program is run: there is no process.
NoMpi ==
  /\ p = 0
  /\ my_contrib = <<>> /\ pc = <<>> /\ counts = <<>> /\ recv_counts = <<>>
  /\ my_size = <<>> /\ my_recv_size = <<>> /\ curr_size = <<>> /\ done = <<>>
  /\ partner = <<>> /\ bitmask = <<>> /\ recv_count = <<>> /\ status = <<>>
  /\ my_list = <<>> /\ temp = <<>> /\ recv_list = <<>> /\ mem = <<>>
  /\ live = <<>> /\ msgs = {} /\ eager = TRUE /\ list_p = <<>>
  /\ size_p = <<>> /\ printed = Unset

\* Neither many_mutexes nor many_sems is run.
NoThreads ==
  /\ prog = "none"
  /\ thread_count = 0 /\ total = 0
  /\ mutex = Unset /\ sem = 0
  /\ thread = 0 /\ main_pc = "none"
  /\ t_pc = <<>> /\ t_i = <<>> /\ loaded = <<>>
  /\ reported = Unset

\* pth_rand_safe is not run.
NoRand ==
  /\ state = <<>> /\ z = <<>> /\ output = <<>>

\* The prime programs are not followed from their command line.
NoInput ==
  /\ mpi_prog = "none" /\ argc = 0 /\ argv1 = <<0, 0>>

\* pth_daxpy is not run.
NoDaxpy ==
  /\ x_vec = <<>> /\ y_vec = <<>> /\ alpha = 0 /\ y_read = <<>>
  /\ y_stores = <<>>

\* The blocks Merge_lists allocates: my_list, temp and recv_list at entry.
Blocks == {"m_list", "m_temp", "m_recv"}

\* What a read of an int outside any initialised object may yield, by sign.
OutOfBounds == {0, 1}

\* What a read of the uninitialised tail of a block may yield: every
\* element of the tail reads as one of these.
Garbage == {0, 1}

--------------------------------------------------------------------------
(* Helpers on sequences.                                                   *)

IsSorted(s) == \A i \in 1 .. (Len(s) - 1) : s[i] <= s[i + 1]

\* All ascending sequences over 1..maxv of length at most maxl.
RECURSIVE SortedSeqsFrom(_, _, _)
SortedSeqsFrom(lo, maxv, maxl) ==
  IF maxl = 0 THEN {<<>>}
  ELSE {<<>>} \cup
       UNION {{<<v>> \o t : t \in SortedSeqsFrom(v, maxv, maxl - 1)} :
              v \in lo .. maxv}

SortedSeqs(maxv, maxl) == SortedSeqsFrom(1, maxv, maxl)

\* Number of occurrences of v in s.
Count(s, v) == Cardinality({i \in 1 .. Len(s) : s[i] = v})

RECURSIVE SumLen(_, _)
SumLen(f, k) == IF k = 0 THEN 0 ELSE Len(f[k - 1]) + SumLen(f, k - 1)

RECURSIVE CountAll(_, _, _)
CountAll(f, k, v) ==
  IF k = 0 THEN 0 ELSE Count(f[k - 1], v) + CountAll(f, k - 1, v)

\* Bitwise exclusive or of two naturals (the C operator ^).
RECURSIVE Xor(_, _)
Xor(a, b) ==
  IF a = 0 THEN b
  ELSE IF b = 0 THEN a
  ELSE (((a % 2) + (b % 2)) % 2) + 2 * Xor(a \div 2, b \div 2)

--------------------------------------------------------------------------
(* Merge: the two-list merge.  a and b are the buffers' contents, asize    *)
(* and bsize the element counts; the result is what was written to c.      *)

\* Merge without its last loop: what is left of b is not copied.
RECURSIVE MergeLoop_NoTailOfB(_, _, _, _, _, _, _)
MergeLoop_NoTailOfB(a, asize, b, bsize, ai, bi, c) ==
  IF ai < asize /\ bi < bsize
  THEN IF a[ai + 1] <= b[bi + 1]
       THEN MergeLoop_NoTailOfB(a, asize, b, bsize, ai + 1, bi, Append(c, a[ai + 1]))
       ELSE MergeLoop_NoTailOfB(a, asize, b, bsize, ai, bi + 1, Append(c, b[bi + 1]))
  ELSE IF ai < asize
  THEN MergeLoop_NoTailOfB(a, asize, b, bsize, ai + 1, bi, Append(c, a[ai + 1]))
  ELSE c

\* Merge without its second loop: what is left of a is not copied.
RECURSIVE MergeLoop_NoTailOfA(_, _, _, _, _, _, _)
MergeLoop_NoTailOfA(a, asize, b, bsize, ai, bi, c) ==
  IF ai < asize /\ bi < bsize
  THEN IF a[ai + 1] <= b[bi + 1]
       THEN MergeLoop_NoTailOfA(a, asize, b, bsize, ai + 1, bi, Append(c, a[ai + 1]))
       ELSE MergeLoop_NoTailOfA(a, asize, b, bsize, ai, bi + 1, Append(c, b[bi + 1]))
  ELSE IF bi < bsize
  THEN MergeLoop_NoTailOfA(a, asize, b, bsize, ai, bi + 1, Append(c, b[bi + 1]))
  ELSE c

RECURSIVE MergeLoop(_, _, _, _, _, _, _)
MergeLoop(a, asize, b, bsize, ai, bi, c) ==
  IF ai < asize /\ bi < bsize
  THEN IF a[ai + 1] <= b[bi + 1]
       THEN MergeLoop(a, asize, b, bsize, ai + 1, bi, Append(c, a[ai + 1]))
       ELSE MergeLoop(a, asize, b, bsize, ai, bi + 1, Append(c, b[bi + 1]))
  ELSE IF ai < asize
  THEN MergeLoop(a, asize, b, bsize, ai + 1, bi, Append(c, a[ai + 1]))
  ELSE IF bi < bsize
  THEN MergeLoop(a, asize, b, bsize, ai, bi + 1, Append(c, b[bi + 1]))
  ELSE c

\* Merge replaced by the append of b to a (the code left commented out in
\* the receive branch of Merge_lists).
Merge_Append(a, asize, b, bsize) == SubSeq(a, 1, asize) \o SubSeq(b, 1, bsize)

Merge(a, asize, b, bsize) == MergeLoop(a, asize, b, bsize, 0, 0, <<>>)

\* The loops of Merge with the test a[ai] < b[bi]: of two equal elements
\* the one of b is copied first.
RECURSIVE MergeOrigins_TiesToB(_, _, _, _, _, _, _)
MergeOrigins_TiesToB(a, asize, b, bsize, ai, bi, c) ==
  IF ai < asize /\ bi < bsize
  THEN IF a[ai + 1] < b[bi + 1]
       THEN MergeOrigins_TiesToB(a, asize, b, bsize, ai + 1, bi,
                                 Append(c, [from |-> "a", at |-> ai + 1]))
       ELSE MergeOrigins_TiesToB(a, asize, b, bsize, ai, bi + 1,
                                 Append(c, [from |-> "b", at |-> bi + 1]))
  ELSE IF ai < asize
  THEN MergeOrigins_TiesToB(a, asize, b, bsize, ai + 1, bi,
                            Append(c, [from |-> "a", at |-> ai + 1]))
  ELSE IF bi < bsize
  THEN MergeOrigins_TiesToB(a, asize, b, bsize, ai, bi + 1,
                            Append(c, [from |-> "b", at |-> bi + 1]))
  ELSE c

\* Where Merge takes each element of c from, in the order it fills c: the
\* loops of Merge, recording the array and the index (from 1) of the element
\* copied instead of its value.
RECURSIVE MergeOrigins(_, _, _, _, _, _, _)
MergeOrigins(a, asize, b, bsize, ai, bi, c) ==
  IF ai < asize /\ bi < bsize
  THEN IF a[ai + 1] <= b[bi + 1]
       THEN MergeOrigins(a, asize, b, bsize, ai + 1, bi,
                         Append(c, [from |-> "a", at |-> ai + 1]))
       ELSE MergeOrigins(a, asize, b, bsize, ai, bi + 1,
                         Append(c, [from |-> "b", at |-> bi + 1]))
  ELSE IF ai < asize
  THEN MergeOrigins(a, asize, b, bsize, ai + 1, bi,
                    Append(c, [from |-> "a", at |-> ai + 1]))
  ELSE IF bi < bsize
  THEN MergeOrigins(a, asize, b, bsize, ai, bi + 1,
                    Append(c, [from |-> "b", at |-> bi + 1]))
  ELSE c

--------------------------------------------------------------------------
(* Compute_list_sizes: simulate the merge tree on the gathered counts.     *)
(* st = [pc |-> prime_counts, rc |-> recv_counts], functions on 0..P-1.    *)

\* Compute_list_sizes keeping the smallest instead of the largest message.
RECURSIVE CLS_Ranks_KeepsSmallest(_, _, _, _, _)
CLS_Ranks_KeepsSmallest(st, P, mask, incr, rank) ==
  IF rank >= P THEN st
  ELSE LET q == Xor(rank, mask) IN
       IF q < P
       THEN LET pcs == [st.pc EXCEPT ![rank] = st.pc[rank] + st.pc[q]]
                rcs == IF st.rc[rank] > pcs[q]
                       THEN [st.rc EXCEPT ![rank] = pcs[q]]
                       ELSE st.rc
            IN  CLS_Ranks_KeepsSmallest([pc |-> pcs, rc |-> rcs], P, mask, incr,
                                        rank + incr)
       ELSE CLS_Ranks_KeepsSmallest(st, P, mask, incr, rank + incr)

\* Compute_list_sizes working on a copy: prime_counts is left as gathered.
RECURSIVE CLS_Ranks_CountsUntouched(_, _, _, _, _)
CLS_Ranks_CountsUntouched(st, P, mask, incr, rank) ==
  IF rank >= P THEN st
  ELSE LET q == Xor(rank, mask) IN
       IF q < P
       THEN LET rcs == IF st.rc[rank] < st.pc[q]
                       THEN [st.rc EXCEPT ![rank] = st.pc[q]]
                       ELSE st.rc
            IN  CLS_Ranks_CountsUntouched([pc |-> st.pc, rc |-> rcs], P, mask,
                                          incr, rank + incr)
       ELSE CLS_Ranks_CountsUntouched(st, P, mask, incr, rank + incr)

RECURSIVE CLS_Ranks(_, _, _, _, _)
CLS_Ranks(st, P, mask, incr, rank) ==
  IF rank >= P THEN st
  ELSE LET q == Xor(rank, mask) IN
       IF q < P
       THEN LET pcs == [st.pc EXCEPT ![rank] = st.pc[rank] + st.pc[q]]
                rcs == IF st.rc[rank] < pcs[q]
                       THEN [st.rc EXCEPT ![rank] = pcs[q]]
                       ELSE st.rc
            IN  CLS_Ranks([pc |-> pcs, rc |-> rcs], P, mask, incr, rank + incr)
       ELSE CLS_Ranks(st, P, mask, incr, rank + incr)

\* Compute_list_sizes with incr left at 2 while bitmask doubles.
RECURSIVE CLS_Masks_IncrNotDoubled(_, _, _, _)
CLS_Masks_IncrNotDoubled(st, P, mask, incr) ==
  IF mask < P
  THEN CLS_Masks_IncrNotDoubled(CLS_Ranks(st, P, mask, incr, 0), P, mask * 2,
                                incr)
  ELSE st

\* Compute_list_sizes simulating the first round only.
CLS_Masks_FirstRoundOnly(st, P, mask, incr) ==
  IF mask < P THEN CLS_Ranks(st, P, mask, incr, 0) ELSE st

RECURSIVE CLS_Masks(_, _, _, _)
CLS_Masks(st, P, mask, incr) ==
  IF mask < P
  THEN CLS_Masks(CLS_Ranks(st, P, mask, incr, 0), P, mask * 2, incr * 2)
  ELSE st

Compute_list_sizes(prime_counts, P) ==
  CLS_Masks([pc |-> prime_counts, rc |-> [r \in 0 .. (P - 1) |-> 0]], P, 1, 2)

--------------------------------------------------------------------------
(* main: the striped prime search that builds my_primes.                   *)

RECURSIVE NoDivisorFrom(_, _)
NoDivisorFrom(i, j) ==
  IF j * j <= i
  THEN IF i % j = 0 THEN FALSE ELSE NoDivisorFrom(i, j + 1)
  ELSE TRUE

Is_prime(i) == NoDivisorFrom(i, 2)

RECURSIVE SearchFrom(_, _, _, _)
SearchFrom(i, nn, incr, found) ==
  IF i <= nn
  THEN SearchFrom(i + incr, nn, incr,
                  IF Is_prime(i) THEN Append(found, i) ELSE found)
  ELSE found

\* The search with incr = p: each rank steps over every other candidate of
\* its neighbours as well.
My_primes_IncrP(nn, P, my_rank) ==
  SearchFrom(2 * my_rank + 3, nn, P, IF my_rank = 0 THEN <<2>> ELSE <<>>)

My_primes(nn, P, my_rank) ==
  SearchFrom(2 * my_rank + 3, nn, 2 * P, IF my_rank = 0 THEN <<2>> ELSE <<>>)

\* The values i takes in the search loop, in order: the integers handed to
\* Is_prime.
RECURSIVE TestedFrom(_, _, _)
TestedFrom(i, nn, incr) ==
  IF i <= nn THEN <<i>> \o TestedFrom(i + incr, nn, incr) ELSE <<>>

Tested(nn, P, my_rank) == TestedFrom(2 * my_rank + 3, nn, 2 * P)

\* The capacity of my_primes with one spare element instead of two.
Local_n_PlusOne(nn, P) == nn \div (2 * P) + 1

\* local_n, the number of ints my_primes is allocated for.
Local_n(nn, P) == nn \div (2 * P) + 2

--------------------------------------------------------------------------
(* Initial states.                                                         *)

\* Locals of Merge_lists before the call, for P processes.
Locals(P, nn, contrib, start) ==
  /\ p = P
  /\ n = nn
  /\ my_contrib = contrib
  /\ pc = [r \in 0 .. (P - 1) |-> start]
  /\ counts = [r \in 0 .. (P - 1) |-> [q \in 0 .. (P - 1) |-> 0]]
  /\ recv_counts = [r \in 0 .. (P - 1) |-> [q \in 0 .. (P - 1) |-> 0]]
  /\ my_size = [r \in 0 .. (P - 1) |-> 0]
  /\ my_recv_size = [r \in 0 .. (P - 1) |-> 0]
  /\ curr_size = [r \in 0 .. (P - 1) |-> 0]
  /\ done = [r \in 0 .. (P - 1) |-> 0]
  /\ partner = [r \in 0 .. (P - 1) |-> 0]
  /\ bitmask = [r \in 0 .. (P - 1) |-> 1]
  /\ recv_count = [r \in 0 .. (P - 1) |-> 0]
  /\ status = [r \in 0 .. (P - 1) |-> 0]
  /\ my_list = [r \in 0 .. (P - 1) |-> "NULL"]
  /\ temp = [r \in 0 .. (P - 1) |-> "NULL"]
  /\ recv_list = [r \in 0 .. (P - 1) |-> "NULL"]
  /\ mem = [r \in 0 .. (P - 1) |-> [b \in Blocks |-> <<>>]]
  /\ live = [r \in 0 .. (P - 1) |-> {}]
  /\ msgs = {}
  /\ eager \in BOOLEAN
  /\ list_p = [r \in 0 .. (P - 1) |-> Unset]
  /\ size_p = [r \in 0 .. (P - 1) |-> Unset]
  /\ printed = Unset
  /\ NoList
  /\ NoThreads
  /\ NoRand

\* The end-to-end scenario of the specification: P = 4, the last rank empty.
Scenario == [r \in 0 .. 3 |-> <<<<2, 3>>, <<5>>, <<7, 11, 13>>, <<>>>>[r + 1]]

\* An ascending list of k elements for rank r of P, interleaved with the
\* lists of the other ranks the way the stripes of main are.
Stripe(P, r, k) == [j \in 1 .. k |-> r + 1 + (j - 1) * P]

\* Every rank enters Merge_lists with an ascending list of any length up to
\* MaxLen, or the ranks hold the lists of the end-to-end scenario.
Init ==
  /\ NoInput /\ NoDaxpy
  /\ \/ \E P \in 1 .. MaxP :
          \E sv \in [0 .. (P - 1) -> 0 .. MaxLen] :
            Locals(P, 0, [r \in 0 .. (P - 1) |-> Stripe(P, r, sv[r])],
                   "Allgather")
     \/ Locals(4, 0, Scenario, "Allgather")

\* The prime programs: every rank starts in main with n >= 2 read by Get_n.
InitPrimes ==
  /\ NoInput /\ NoDaxpy
  /\ \E P \in 1 .. MaxP : \E nn \in 2 .. MaxN :
       Locals(P, nn, [r \in 0 .. (P - 1) |-> <<>>], "main")

--------------------------------------------------------------------------
(* Merge_lists, one action per stretch of code between two MPI calls.      *)

Min(a, b) == IF a < b THEN a ELSE b

\* MPI_ERRORS_ARE_FATAL: once a rank hits an MPI error the job is aborted.
Aborted == \E q \in Ranks : pc[q] = "aborted"

\* main: the striped search fills my_primes; then Print_primes is called.
PrimeSearch(r) ==
  /\ pc[r] = "main"
  /\ my_contrib' = [my_contrib EXCEPT ![r] = My_primes(n, p, r)]
  /\ pc' = [pc EXCEPT ![r] = "Allgather"]
  /\ UNCHANGED <<p, n, counts, recv_counts, my_size, my_recv_size, curr_size,
                 done, partner, bitmask, recv_count, status, my_list, temp, recv_list,
                 mem, live, msgs, eager, list_p, size_p, printed>>
  /\ UNCHANGED <<listVars, threadVars, randVars, inputVars, daxpyVars>>

\* MPI_Allgather of my_count (a collective: it completes once every rank
\* has called it), then on each rank Compute_list_sizes, the three mallocs
\* and the copy of my_contrib into my_list.
Allgather ==
  /\ \A q \in Ranks : pc[q] = "Allgather"
  /\ LET gathered == [q \in Ranks |-> Len(my_contrib[q])]
         cls == Compute_list_sizes(gathered, p)
     IN  /\ counts' = [r \in Ranks |-> cls.pc]
         /\ recv_counts' = [r \in Ranks |-> cls.rc]
         /\ my_size' = [r \in Ranks |-> cls.pc[r]]
         /\ my_list' = [r \in Ranks |-> IF cls.pc[r] > 0 THEN "m_list" ELSE "NULL"]
         /\ temp' = [r \in Ranks |-> IF cls.pc[r] > 0 THEN "m_temp" ELSE "NULL"]
         /\ my_recv_size' = [r \in Ranks |-> cls.rc[r]]
         /\ recv_list' = [r \in Ranks |-> IF cls.rc[r] > 0 THEN "m_recv" ELSE "NULL"]
         /\ live' = [r \in Ranks |->
                       (IF cls.pc[r] > 0 THEN {"m_list", "m_temp"} ELSE {})
                       \cup (IF cls.rc[r] > 0 THEN {"m_recv"} ELSE {})]
         /\ mem' = [r \in Ranks |-> [mem[r] EXCEPT !["m_list"] = my_contrib[r]]]
         /\ curr_size' = [r \in Ranks |-> Len(my_contrib[r])]
  /\ pc' = [r \in Ranks |-> "loop"]
  /\ UNCHANGED <<p, n, my_contrib, done, partner, bitmask, recv_count, status, msgs, eager,
                 list_p, size_p, printed>>
  /\ UNCHANGED <<listVars, threadVars, randVars, inputVars, daxpyVars>>

\* The loop condition with <= for <: one round too many.
InLoop_Inclusive(r) == pc[r] = "loop" /\ done[r] = 0 /\ bitmask[r] <= p /\ ~Aborted

\* The loop condition with the bound 2*p for p: the loop runs one round on.
InLoop_TwiceP(r) == pc[r] = "loop" /\ done[r] = 0 /\ bitmask[r] < 2 * p /\ ~Aborted

\* The loop condition of while (!done && bitmask < p).
InLoop(r) == pc[r] = "loop" /\ done[r] = 0 /\ bitmask[r] < p /\ ~Aborted

\* The guard reading the partner's own count, as gathered, instead of its
\* accumulated count.
CountsAt_OwnCount(r, q, g) == IF q < p THEN Len(my_contrib[q]) ELSE g

\* counts[q] as rank r reads it; g is what the read yields when q >= p.
CountsAt(r, q, g) == IF q < p THEN counts[r][q] ELSE g

\* The branch rank my_rank takes for partner q whose count reads as cnt.
Role(my_rank, q, cnt) ==
  IF my_rank < q /\ cnt > 0
  THEN IF q < p THEN "recv" ELSE "skip"
  ELSE "send"

\* Merge ending with memcpy(a, c, ci*sizeof(int)) instead of exchanging the
\* pointers: the merged list is copied back into the block of my_list.
CallMerge_Memcpy(r, m0, b, bsize) ==
  LET c == Merge(m0[my_list[r]], curr_size[r], b, bsize)
      old == m0[temp[r]]
      olda == m0[my_list[r]]
  IN  /\ mem' = [mem EXCEPT ![r] =
                   [m0 EXCEPT ![temp[r]] = c \o SubSeq(old, Len(c) + 1, Len(old)),
                              ![my_list[r]] =
                                c \o SubSeq(olda, Len(c) + 1, Len(olda))]]
      /\ UNCHANGED <<my_list, temp>>
      /\ curr_size' = [curr_size EXCEPT ![r] = Len(c)]

\* The call Merge(&my_list, &curr_size, b, bsize, &temp) on rank r: the
\* merged list is written to the block temp points to, then my_list and temp
\* are exchanged and curr_size set.  m0 is rank r's memory at the call.
CallMerge(r, m0, b, bsize) ==
  LET c == Merge(m0[my_list[r]], curr_size[r], b, bsize)
      old == m0[temp[r]]
  IN  /\ mem' = [mem EXCEPT ![r] =
                   [m0 EXCEPT ![temp[r]] = c \o SubSeq(old, Len(c) + 1, Len(old))]]
      /\ my_list' = [my_list EXCEPT ![r] = temp[r]]
      /\ temp' = [temp EXCEPT ![r] = my_list[r]]
      /\ curr_size' = [curr_size EXCEPT ![r] = Len(c)]

\* MPI_Recv from partner, Merge into my_list, bitmask <<= 1.  A message
\* longer than the count passed is MPI_ERR_TRUNCATE and one longer than
\* the recv_list block overruns it: the job does not go on.
Recv(r) ==
  /\ InLoop(r)
  /\ LET q == Xor(r, bitmask[r]) IN
     /\ q < p
     /\ Role(r, q, CountsAt(r, q, 0)) = "recv"
     /\ \E m \in msgs :
          /\ m.src = q /\ m.dst = r
          /\ msgs' = msgs \ {m}
          /\ partner' = [partner EXCEPT ![r] = q]
          /\ status' = [status EXCEPT ![r] = m.len]
          /\ IF m.len > counts[r][q] \/ m.len > my_recv_size[r]
             THEN /\ pc' = [pc EXCEPT ![r] = "aborted"]
                  /\ UNCHANGED <<recv_count, mem, my_list, temp, curr_size, bitmask>>
             ELSE /\ recv_count' = [recv_count EXCEPT ![r] = counts[r][q]]
                  /\ CallMerge(r, [mem[r] EXCEPT ![recv_list[r]] = m.data],
                               m.data, counts[r][q])
                  /\ bitmask' = [bitmask EXCEPT ![r] = 2 * bitmask[r]]
                  /\ UNCHANGED pc
  /\ UNCHANGED <<p, n, eager, my_contrib, counts, recv_counts, my_size, my_recv_size,
                 done, recv_list, live, list_p, size_p, printed>>
  /\ UNCHANGED <<listVars, threadVars, randVars, inputVars, daxpyVars>>

\* The receive branch with partner >= p: nothing but bitmask <<= 1.
Skip(r) ==
  /\ InLoop(r)
  /\ LET q == Xor(r, bitmask[r]) IN
     /\ \E g \in OutOfBounds : Role(r, q, CountsAt(r, q, g)) = "skip"
     /\ partner' = [partner EXCEPT ![r] = q]
  /\ bitmask' = [bitmask EXCEPT ![r] = 2 * bitmask[r]]
  /\ UNCHANGED <<p, n, my_contrib, pc, counts, recv_counts, my_size,
                 my_recv_size, curr_size, done, recv_count, status, my_list, temp,
                 recv_list, mem, live, msgs, eager, list_p, size_p, printed>>
  /\ UNCHANGED <<listVars, threadVars, randVars, inputVars, daxpyVars>>

\* The else branch: MPI_Send of my_size elements of my_list to partner.
Send(r) ==
  /\ InLoop(r)
  /\ LET q == Xor(r, bitmask[r]) IN
     /\ q < p
     /\ Role(r, q, CountsAt(r, q, 0)) = "send"
     /\ partner' = [partner EXCEPT ![r] = q]
     /\ msgs' = msgs \cup
          {[src |-> r, dst |-> q, len |-> my_size[r],
            data |-> IF my_list[r] = "NULL" THEN <<>>
                     ELSE SubSeq(mem[r][my_list[r]], 1,
                                 Min(my_size[r], Len(mem[r][my_list[r]])))]}
  /\ pc' = [pc EXCEPT ![r] = "MPI_Send"]
  /\ UNCHANGED <<p, n, eager, my_contrib, counts, recv_counts, my_size, my_recv_size,
                 curr_size, done, bitmask, recv_count, status, my_list, temp,
                 recv_list, mem, live, list_p, size_p, printed>>
  /\ UNCHANGED <<listVars, threadVars, randVars, inputVars, daxpyVars>>

\* The else branch with partner >= p: MPI_Send to an invalid rank.
SendInvalid(r) ==
  /\ InLoop(r)
  /\ LET q == Xor(r, bitmask[r]) IN
     /\ q >= p
     /\ \E g \in OutOfBounds : Role(r, q, CountsAt(r, q, g)) = "send"
     /\ partner' = [partner EXCEPT ![r] = q]
  /\ pc' = [pc EXCEPT ![r] = "aborted"]
  /\ UNCHANGED <<p, n, my_contrib, counts, recv_counts, my_size, my_recv_size,
                 curr_size, done, bitmask, recv_count, status, my_list, temp,
                 recv_list, mem, live, msgs, eager, list_p, size_p, printed>>
  /\ UNCHANGED <<listVars, threadVars, randVars, inputVars, daxpyVars>>

\* The hand-off without the test my_rank == 0: every rank writes the out
\* arguments.
HandOff_EveryRank(r) ==
  /\ list_p' = [list_p EXCEPT ![r] = <<my_list[r]>>]
  /\ size_p' = [size_p EXCEPT ![r] = <<my_size[r]>>]
  /\ live' = [live EXCEPT ![r] = live[r] \ {recv_list[r], temp[r]}]
  /\ pc' = [pc EXCEPT ![r] = IF r = 0 THEN "Print_primes" ELSE "MPI_Finalize"]

\* Lines after the loop: rank 0 hands my_list and my_size out, the others
\* free my_list; every rank frees recv_list and temp and returns to
\* Print_primes, where only rank 0 has work left.
HandOff(r) ==
  /\ IF r = 0
     THEN /\ list_p' = [list_p EXCEPT ![r] = <<my_list[r]>>]
          /\ size_p' = [size_p EXCEPT ![r] = <<my_size[r]>>]
          /\ live' = [live EXCEPT ![r] = live[r] \ {recv_list[r], temp[r]}]
          /\ pc' = [pc EXCEPT ![r] = "Print_primes"]
     ELSE /\ live' = [live EXCEPT ![r] = {}]
          /\ pc' = [pc EXCEPT ![r] = "MPI_Finalize"]
          /\ UNCHANGED <<list_p, size_p>>

\* MPI_Send returns once the message is buffered (eager) or received
\* (rendezvous); done = 1 ends the loop.
SendReturn(r) ==
  /\ pc[r] = "MPI_Send"
  /\ ~Aborted
  /\ eager \/ \A m \in msgs : m.src # r
  /\ done' = [done EXCEPT ![r] = 1]
  /\ HandOff(r)
  /\ UNCHANGED <<p, n, my_contrib, counts, recv_counts, my_size, my_recv_size,
                 curr_size, partner, bitmask, recv_count, status, my_list, temp,
                 recv_list, mem, msgs, eager, printed>>
  /\ UNCHANGED <<listVars, threadVars, randVars, inputVars, daxpyVars>>

\* The loop ends with bitmask >= p and done = 0.
LoopExit(r) ==
  /\ pc[r] = "loop"
  /\ ~Aborted
  /\ ~(bitmask[r] < p)
  /\ HandOff(r)
  /\ UNCHANGED <<p, n, my_contrib, counts, recv_counts, my_size, my_recv_size,
                 curr_size, done, partner, bitmask, recv_count, status, my_list, temp,
                 recv_list, mem, msgs, eager, printed>>
  /\ UNCHANGED <<listVars, threadVars, randVars, inputVars, daxpyVars>>

\* The first size elements of block blk of rank r as a reader may see them.
ReadList(r, blk, size) ==
  LET init == IF blk = "NULL" THEN <<>> ELSE mem[r][blk]
      k == Min(size, Len(init))
  IN  {SubSeq(init, 1, k) \o [i \in 1 .. (size - k) |-> g] : g \in Garbage}

\* Print_primes after Merge_lists: rank 0 prints the list and frees it.
Print_primes ==
  /\ pc[0] = "Print_primes"
  /\ ~Aborted
  /\ \E out \in ReadList(0, list_p[0][1], size_p[0][1]) : printed' = <<out>>
  /\ live' = [live EXCEPT ![0] = live[0] \ {list_p[0][1]}]
  /\ pc' = [pc EXCEPT ![0] = "MPI_Finalize"]
  /\ UNCHANGED <<p, n, my_contrib, counts, recv_counts, my_size, my_recv_size,
                 curr_size, done, partner, bitmask, recv_count, status, my_list, temp,
                 recv_list, mem, msgs, eager, list_p, size_p>>
  /\ UNCHANGED <<listVars, threadVars, randVars, inputVars, daxpyVars>>

Next ==
  \/ Allgather
  \/ \E r \in Ranks : Recv(r)
  \/ \E r \in Ranks : Skip(r)
  \/ \E r \in Ranks : Send(r)
  \/ \E r \in Ranks : SendInvalid(r)
  \/ \E r \in Ranks : SendReturn(r)
  \/ \E r \in Ranks : LoopExit(r)
  \/ Print_primes

Spec == Init /\ [][Next]_vars

NextPrimes ==
  \/ \E r \in Ranks : PrimeSearch(r)
  \/ Next

SpecPrimes == InitPrimes /\ [][NextPrimes]_vars

--------------------------------------------------------------------------
(* Merge on its own: one process calls Merge on two ascending lists a and  *)
(* b, with my_list and temp blocks large enough for the result.            *)

InitMerge ==
  \E a \in SortedSeqs(MergeMaxVal, MergeMaxLen) :
    \E b \in SortedSeqs(MergeMaxVal, MergeMaxLen) :
      /\ p = 1
      /\ n = 0
      /\ my_contrib = [r \in {0} |-> a]
      /\ pc = [r \in {0} |-> "Merge"]
      /\ counts = [r \in {0} |-> [q \in {0} |-> Len(a) + Len(b)]]
      /\ recv_counts = [r \in {0} |-> [q \in {0} |-> Len(b)]]
      /\ my_size = [r \in {0} |-> Len(a) + Len(b)]
      /\ my_recv_size = [r \in {0} |-> Len(b)]
      /\ curr_size = [r \in {0} |-> Len(a)]
      /\ done = [r \in {0} |-> 0]
      /\ partner = [r \in {0} |-> 0]
      /\ bitmask = [r \in {0} |-> 1]
      /\ recv_count = [r \in {0} |-> Len(b)]
      /\ status = [r \in {0} |-> Len(b)]
      /\ my_list = [r \in {0} |-> "m_list"]
      /\ temp = [r \in {0} |-> "m_temp"]
      /\ recv_list = [r \in {0} |-> "m_recv"]
      /\ mem = [r \in {0} |->
                  [blk \in Blocks |-> IF blk = "m_list" THEN a
                                      ELSE IF blk = "m_recv" THEN b ELSE <<>>]]
      /\ live = [r \in {0} |-> Blocks]
      /\ msgs = {}
      /\ eager = TRUE
      /\ list_p = [r \in {0} |-> Unset]
      /\ size_p = [r \in {0} |-> Unset]
      /\ printed = Unset
      /\ NoList
      /\ NoThreads
      /\ NoRand
      /\ NoInput /\ NoDaxpy

MergeOnly(r) ==
  /\ pc[r] = "Merge"
  /\ CallMerge(r, mem[r], mem[r][recv_list[r]], recv_count[r])
  /\ pc' = [pc EXCEPT ![r] = "Merge_done"]
  /\ UNCHANGED <<p, n, my_contrib, counts, recv_counts, my_size, my_recv_size,
                 done, partner, bitmask, recv_count, status, recv_list, live,
                 msgs, eager, list_p, size_p, printed>>
  /\ UNCHANGED <<listVars, threadVars, randVars, inputVars, daxpyVars>>

NextMerge == \E r \in Ranks : MergeOnly(r)

SpecMerge == InitMerge /\ [][NextMerge]_vars

--------------------------------------------------------------------------
(* linked_list_dbl.c: a sorted doubly linked list of strings.  A string is *)
(* the sequence of its characters; the heap holds MaxNodes nodes.          *)

\* Strings over the characters 'a' (1) and 'b' (2), some of them prefixes
\* of others.
StringPool ==
  <<<<1, 2>>, <<2>>, <<1>>, <<2, 1>>, <<1, 2, 1>>, <<1, 1>>, <<2, 2>>, <<1, 2, 2>>>>

\* What Get_string may read: the first MaxStrings strings of the pool.
Strings == {StringPool[k] : k \in 1 .. MaxStrings}

\* strcmp: the difference of the first two characters that differ, the
\* terminating null character of the shorter string included.
RECURSIVE StrcmpFrom(_, _, _)
StrcmpFrom(s, t, k) ==
  LET cs == IF k <= Len(s) THEN s[k] ELSE 0
      ct == IF k <= Len(t) THEN t[k] ELSE 0
  IN  IF cs # ct THEN cs - ct
      ELSE IF cs = 0 THEN 0
      ELSE StrcmpFrom(s, t, k + 1)

strcmp(s, t) == StrcmpFrom(s, t, 1)

\* main before the first command: the empty list.
InitList ==
  /\ NoMpi /\ n = 0
  /\ h_p = NULL /\ t_p = NULL
  /\ nodes = [a \in Addrs |-> FreeNode]
  /\ inserted = {}
  /\ ret = 0
  /\ command = "start"
  /\ was_in = FALSE
  /\ NoThreads
  /\ NoRand
  /\ NoInput /\ NoDaxpy

\* The search loop of Insert with the break on strcmp > 0 instead of < 0.
RECURSIVE InsertScan_BreaksOnGreater(_, _)
InsertScan_BreaksOnGreater(string, curr_p) ==
  IF curr_p = NULL THEN [returned |-> FALSE, curr_p |-> NULL]
  ELSE IF strcmp(string, nodes[curr_p].data) = 0
  THEN [returned |-> TRUE, curr_p |-> curr_p]
  ELSE IF strcmp(string, nodes[curr_p].data) > 0
  THEN [returned |-> FALSE, curr_p |-> curr_p]
  ELSE InsertScan_BreaksOnGreater(string, nodes[curr_p].next_p)

\* The search loop of Insert without the test for an equal string.
RECURSIVE InsertScan_NoEqualTest(_, _)
InsertScan_NoEqualTest(string, curr_p) ==
  IF curr_p = NULL THEN [returned |-> FALSE, curr_p |-> NULL]
  ELSE IF strcmp(string, nodes[curr_p].data) < 0
  THEN [returned |-> FALSE, curr_p |-> curr_p]
  ELSE InsertScan_NoEqualTest(string, nodes[curr_p].next_p)

\* The search loop of Insert from curr_p on: whether Insert returns from
\* it (string already in the list), and curr_p when it does not.
RECURSIVE InsertScan(_, _)
InsertScan(string, curr_p) ==
  IF curr_p = NULL THEN [returned |-> FALSE, curr_p |-> NULL]
  ELSE IF strcmp(string, nodes[curr_p].data) = 0
  THEN [returned |-> TRUE, curr_p |-> curr_p]
  ELSE IF strcmp(string, nodes[curr_p].data) < 0
  THEN [returned |-> FALSE, curr_p |-> curr_p]
  ELSE InsertScan(string, nodes[curr_p].next_p)

\* Insert(&list, string).  Allocate_node returns any block of the heap that
\* holds no node.
Insert(string) ==
  LET scan == InsertScan(string, h_p)
      curr_p == scan.curr_p
  IN  IF scan.returned THEN UNCHANGED <<h_p, t_p, nodes>>
      ELSE \E temp_p \in {a \in Addrs : nodes[a] = FreeNode} :
             LET fresh == [data |-> string, prev_p |-> NULL, next_p |-> NULL]
             IN  IF h_p = NULL
                 THEN /\ h_p' = temp_p /\ t_p' = temp_p
                      /\ nodes' = [nodes EXCEPT ![temp_p] = fresh]
                 ELSE IF curr_p = NULL
                 THEN /\ nodes' = [nodes EXCEPT
                                     ![temp_p] = [fresh EXCEPT !.prev_p = t_p],
                                     ![t_p].next_p = temp_p]
                      /\ t_p' = temp_p
                      /\ UNCHANGED h_p
                 ELSE IF curr_p = h_p
                 THEN /\ nodes' = [nodes EXCEPT
                                     ![temp_p] = [fresh EXCEPT !.next_p = h_p],
                                     ![h_p].prev_p = temp_p]
                      /\ h_p' = temp_p
                      /\ UNCHANGED t_p
                 ELSE /\ nodes' = [nodes EXCEPT
                                     ![temp_p] = [data |-> string,
                                                  prev_p |-> nodes[curr_p].prev_p,
                                                  next_p |-> curr_p],
                                     ![curr_p].prev_p = temp_p,
                                     ![nodes[curr_p].prev_p].next_p = temp_p]
                      /\ UNCHANGED <<h_p, t_p>>

\* The search loop of Delete from curr_p on: whether Delete returns from
\* it (a greater string was met), and curr_p when it does not.
RECURSIVE DeleteScan(_, _)
DeleteScan(string, curr_p) ==
  IF curr_p = NULL THEN [returned |-> FALSE, curr_p |-> NULL]
  ELSE IF strcmp(string, nodes[curr_p].data) = 0
  THEN [returned |-> FALSE, curr_p |-> curr_p]
  ELSE IF strcmp(string, nodes[curr_p].data) < 0
  THEN [returned |-> TRUE, curr_p |-> curr_p]
  ELSE DeleteScan(string, nodes[curr_p].next_p)

\* Free_node: the block holds no node any more.
Free_node(heap, node_p) == [heap EXCEPT ![node_p] = FreeNode]

\* Delete(&list, string).
Delete(string) ==
  LET scan == DeleteScan(string, h_p)
      curr_p == scan.curr_p
  IN  IF scan.returned \/ curr_p = NULL THEN UNCHANGED <<h_p, t_p, nodes>>
      ELSE IF nodes[curr_p].prev_p = NULL /\ nodes[curr_p].next_p = NULL
      THEN /\ h_p' = NULL /\ t_p' = NULL
           /\ nodes' = Free_node(nodes, curr_p)
      ELSE IF nodes[curr_p].prev_p = NULL
      THEN /\ h_p' = nodes[curr_p].next_p
           /\ nodes' = Free_node([nodes EXCEPT ![nodes[curr_p].next_p].prev_p = NULL],
                                 curr_p)
           /\ UNCHANGED t_p
      ELSE IF nodes[curr_p].next_p = NULL
      THEN /\ t_p' = nodes[curr_p].prev_p
           /\ nodes' = Free_node([nodes EXCEPT ![nodes[curr_p].prev_p].next_p = NULL],
                                 curr_p)
           /\ UNCHANGED h_p
      ELSE /\ nodes' = Free_node([nodes EXCEPT
                                    ![nodes[curr_p].prev_p].next_p = nodes[curr_p].next_p,
                                    ![nodes[curr_p].next_p].prev_p = nodes[curr_p].prev_p],
                                 curr_p)
           /\ UNCHANGED <<h_p, t_p>>

\* The search loop of Member returning 0 on strcmp > 0 instead of < 0.
RECURSIVE MemberScan_ReturnsOnGreater(_, _)
MemberScan_ReturnsOnGreater(string, curr_p) ==
  IF curr_p = NULL THEN 0
  ELSE IF strcmp(string, nodes[curr_p].data) = 0 THEN 1
  ELSE IF strcmp(string, nodes[curr_p].data) > 0 THEN 0
  ELSE MemberScan_ReturnsOnGreater(string, nodes[curr_p].next_p)

\* The search loop of Member from curr_p on.
RECURSIVE MemberScan(_, _)
MemberScan(string, curr_p) ==
  IF curr_p = NULL THEN 0
  ELSE IF strcmp(string, nodes[curr_p].data) = 0 THEN 1
  ELSE IF strcmp(string, nodes[curr_p].data) < 0 THEN 0
  ELSE MemberScan(string, nodes[curr_p].next_p)

\* Member(&list, string).
Member(string) == MemberScan(string, h_p)

\* The addresses of the nodes on the next_p chain from curr_p, at most
\* fuel of them.
RECURSIVE Chain(_, _)
Chain(curr_p, fuel) ==
  IF curr_p = NULL \/ fuel = 0 THEN <<>>
  ELSE <<curr_p>> \o Chain(nodes[curr_p].next_p, fuel - 1)

\* Free_list(&list): every node on the chain from h_p is freed.
Free_list ==
  LET freed == {Chain(h_p, MaxNodes)[k] : k \in 1 .. Len(Chain(h_p, MaxNodes))}
  IN  /\ nodes' = [a \in Addrs |-> IF a \in freed THEN FreeNode ELSE nodes[a]]
      /\ h_p' = NULL /\ t_p' = NULL

\* main is in its loop: the last command read, if any, was not q.
InCommandLoop == command \notin {"none", "q"}

\* main: one command read by Get_command, with its string, and carried out.
Command_i(string) ==
  /\ InCommandLoop
  /\ command' = "i"
  /\ Insert(string)
  /\ inserted' = inserted \cup {string}
  /\ was_in' = (string \in inserted)
  /\ UNCHANGED <<ret, n, mpiVars, threadVars, randVars,
                 inputVars, daxpyVars>>

Command_m(string) ==
  /\ InCommandLoop
  /\ command' = "m"
  /\ ret' = Member(string)
  /\ was_in' = (string \in inserted)
  /\ UNCHANGED <<h_p, t_p, nodes, inserted, n, mpiVars, threadVars, randVars,
                 inputVars, daxpyVars>>

Command_d(string) ==
  /\ InCommandLoop
  /\ command' = "d"
  /\ Delete(string)
  /\ inserted' = inserted \ {string}
  /\ was_in' = (string \in inserted)
  /\ UNCHANGED <<ret, n, mpiVars, threadVars, randVars,
                 inputVars, daxpyVars>>

Command_f ==
  /\ InCommandLoop
  /\ command' = "f"
  /\ Free_list
  /\ inserted' = {}
  /\ was_in' = FALSE
  /\ UNCHANGED <<ret, n, mpiVars, threadVars, randVars,
                 inputVars, daxpyVars>>

\* The command q: the loop ends, main frees the list and returns.
Command_q ==
  /\ InCommandLoop
  /\ command' = "q"
  /\ Free_list
  /\ inserted' = {}
  /\ was_in' = FALSE
  /\ UNCHANGED <<ret, n, mpiVars, threadVars, randVars,
                 inputVars, daxpyVars>>

NextList ==
  \/ \E string \in Strings : Command_i(string)
  \/ \E string \in Strings : Command_m(string)
  \/ \E string \in Strings : Command_d(string)
  \/ Command_f
  \/ Command_q

SpecList == InitList /\ [][NextList]_vars

--------------------------------------------------------------------------
(* many_mutexes.c and many_sems.c: thread_count threads each add 1 to the  *)
(* global total n times, under a mutex or under a semaphore set to 1.      *)

\* The largest value of the int total.
INT_MAX == 2147483647

Threads == 0 .. (thread_count - 1)

\* main after its arguments are read and the mutex or semaphore is set up.
InitThreads ==
  /\ NoMpi /\ NoList /\ NoRand /\ NoInput /\ NoDaxpy
  /\ prog \in {"many_mutexes", "many_sems"}
  /\ thread_count \in 1 .. MaxThreads
  /\ n \in 0 .. MaxIter
  /\ total = 0
  /\ mutex = Unset
  /\ sem = (IF prog = "many_sems" THEN 1 ELSE 0)
  /\ thread = 0
  /\ main_pc = "pthread_create"
  /\ t_pc = [t \in 0 .. (thread_count - 1) |-> "not_created"]
  /\ t_i = [t \in 0 .. (thread_count - 1) |-> 0]
  /\ loaded = [t \in 0 .. (thread_count - 1) |-> 0]
  /\ reported = Unset

\* main: pthread_create of thread number thread, which starts at its for
\* loop; after the last one main goes on to the joins.
Pthread_create ==
  /\ main_pc = "pthread_create"
  /\ thread < thread_count
  /\ t_pc' = [t_pc EXCEPT ![thread] = "for"]
  /\ IF thread + 1 < thread_count
     THEN thread' = thread + 1 /\ UNCHANGED main_pc
     ELSE thread' = 0 /\ main_pc' = "pthread_join"
  /\ UNCHANGED <<prog, thread_count, total, mutex, sem, t_i, loaded, reported,
                 n, mpiVars, listVars, randVars,
                 inputVars, daxpyVars>>

\* main: pthread_join returns once the thread has returned; after the last
\* one main goes on to printf.
Pthread_join ==
  /\ main_pc = "pthread_join"
  /\ t_pc[thread] = "returned"
  /\ IF thread + 1 < thread_count
     THEN thread' = thread + 1 /\ UNCHANGED main_pc
     ELSE thread' = thread_count /\ main_pc' = "printf"
  /\ UNCHANGED <<prog, thread_count, total, mutex, sem, t_pc, t_i, loaded,
                 reported, n, mpiVars, listVars, randVars,
                 inputVars, daxpyVars>>

\* main: the total is printed.
Printf_total ==
  /\ main_pc = "printf"
  /\ reported' = <<total>>
  /\ main_pc' = "return"
  /\ UNCHANGED <<prog, thread_count, total, mutex, sem, thread, t_pc, t_i,
                 loaded, n, mpiVars, listVars, randVars,
                 inputVars, daxpyVars>>

\* Lock_and_unlock: the test i < n of the for loop.
For(t) ==
  /\ t_pc[t] = "for"
  /\ t_pc' = [t_pc EXCEPT ![t] = IF t_i[t] < n THEN "lock" ELSE "returned"]
  /\ UNCHANGED <<prog, thread_count, total, mutex, sem, thread, main_pc, t_i,
                 loaded, reported, n, mpiVars, listVars, randVars,
                 inputVars, daxpyVars>>

\* pthread_mutex_lock that does not wait for the mutex to be free.
Mutex_lock_NoWait(t) ==
  /\ prog = "many_mutexes"
  /\ t_pc[t] = "lock"
  /\ mutex' = <<t>>
  /\ t_pc' = [t_pc EXCEPT ![t] = "load"]
  /\ UNCHANGED <<prog, thread_count, total, sem, thread, main_pc, t_i, loaded,
                 reported, n, mpiVars, listVars, randVars,
                 inputVars, daxpyVars>>

\* pthread_mutex_lock(&mutex) returns once the thread holds the mutex.
Mutex_lock(t) ==
  /\ prog = "many_mutexes"
  /\ t_pc[t] = "lock"
  /\ mutex = Unset
  /\ mutex' = <<t>>
  /\ t_pc' = [t_pc EXCEPT ![t] = "load"]
  /\ UNCHANGED <<prog, thread_count, total, sem, thread, main_pc, t_i, loaded,
                 reported, n, mpiVars, listVars, randVars,
                 inputVars, daxpyVars>>

\* sem_wait(&sem) returns once it has decremented a positive semaphore.
Sem_wait(t) ==
  /\ prog = "many_sems"
  /\ t_pc[t] = "lock"
  /\ sem > 0
  /\ sem' = sem - 1
  /\ t_pc' = [t_pc EXCEPT ![t] = "load"]
  /\ UNCHANGED <<prog, thread_count, total, mutex, thread, main_pc, t_i, loaded,
                 reported, n, mpiVars, listVars, randVars,
                 inputVars, daxpyVars>>

\* total++, first half: the value of total is read.
Load_total(t) ==
  /\ t_pc[t] = "load"
  /\ loaded' = [loaded EXCEPT ![t] = total]
  /\ t_pc' = [t_pc EXCEPT ![t] = "store"]
  /\ UNCHANGED <<prog, thread_count, total, mutex, sem, thread, main_pc, t_i,
                 reported, n, mpiVars, listVars, randVars,
                 inputVars, daxpyVars>>

\* total++, second half: the value read plus 1 is written; beyond INT_MAX
\* the addition overflows and any int may be written.
Store_total(t) ==
  /\ t_pc[t] = "store"
  /\ IF loaded[t] < INT_MAX
     THEN total' = loaded[t] + 1
     ELSE total' \in {0 - INT_MAX - 1, 0, INT_MAX}
  /\ t_pc' = [t_pc EXCEPT ![t] = "unlock"]
  /\ UNCHANGED <<prog, thread_count, mutex, sem, thread, main_pc, t_i, loaded,
                 reported, n, mpiVars, listVars, randVars,
                 inputVars, daxpyVars>>

\* pthread_mutex_unlock(&mutex), then i++.
Mutex_unlock(t) ==
  /\ prog = "many_mutexes"
  /\ t_pc[t] = "unlock"
  /\ mutex' = Unset
  /\ t_i' = [t_i EXCEPT ![t] = t_i[t] + 1]
  /\ t_pc' = [t_pc EXCEPT ![t] = "for"]
  /\ UNCHANGED <<prog, thread_count, total, sem, thread, main_pc, loaded,
                 reported, n, mpiVars, listVars, randVars,
                 inputVars, daxpyVars>>

\* sem_post(&sem), then i++.
Sem_post(t) ==
  /\ prog = "many_sems"
  /\ t_pc[t] = "unlock"
  /\ sem' = sem + 1
  /\ t_i' = [t_i EXCEPT ![t] = t_i[t] + 1]
  /\ t_pc' = [t_pc EXCEPT ![t] = "for"]
  /\ UNCHANGED <<prog, thread_count, total, mutex, thread, main_pc, loaded,
                 reported, n, mpiVars, listVars, randVars,
                 inputVars, daxpyVars>>

NextThreads ==
  \/ Pthread_create
  \/ Pthread_join
  \/ Printf_total
  \/ \E t \in Threads : For(t)
  \/ \E t \in Threads : Mutex_lock(t)
  \/ \E t \in Threads : Sem_wait(t)
  \/ \E t \in Threads : Load_total(t)
  \/ \E t \in Threads : Store_total(t)
  \/ \E t \in Threads : Mutex_unlock(t)
  \/ \E t \in Threads : Sem_post(t)

SpecThreads == InitThreads /\ [][NextThreads]_vars

--------------------------------------------------------------------------
(* pth_rand_safe.c: thread_count threads each seed a linear congruential   *)
(* generator with rank + 1 and print n values; the state of the generator  *)
(* is a local variable of Thread_work, passed to My_random by address.     *)
(* An unsigned is kept as its four bytes, least significant first, so that *)
(* the 32-bit product and the modulus 2^32 - 5 are computed exactly.       *)

MR_MULTIPLIER == 279470273

\* 4294967291U
MR_MODULUS == <<251, 255, 255, 255>>

\* The unsigned that holds the non-negative int x.
Unsigned(x) ==
  <<x % 256, (x \div 256) % 256, (x \div 65536) % 256,
    (x \div 16777216) % 256>>

\* x*y of two unsigned operands: the low 32 bits of the product.
MulUnsigned(x, y) ==
  LET c1 == x[1] * y[1]
      c2 == x[1] * y[2] + x[2] * y[1] + (c1 \div 256)
      c3 == x[1] * y[3] + x[2] * y[2] + x[3] * y[1] + (c2 \div 256)
      c4 == x[1] * y[4] + x[2] * y[3] + x[3] * y[2] + x[4] * y[1]
              + (c3 \div 256)
  IN  <<c1 % 256, c2 % 256, c3 % 256, c4 % 256>>

\* x < y for two unsigned operands.
LessUnsigned(x, y) ==
  \E k \in 1 .. 4 : x[k] < y[k] /\ \A j \in (k + 1) .. 4 : x[j] = y[j]

\* x - y for unsigned x >= y.
SubUnsigned(x, y) ==
  LET d1 == x[1] - y[1]
      d2 == x[2] - y[2] - (IF d1 < 0 THEN 1 ELSE 0)
      d3 == x[3] - y[3] - (IF d2 < 0 THEN 1 ELSE 0)
      d4 == x[4] - y[4] - (IF d3 < 0 THEN 1 ELSE 0)
  IN  <<d1 % 256, d2 % 256, d3 % 256, d4 % 256>>

\* tmp % MR_MODULUS for tmp below 2^32, which is below twice the modulus.
ModModulus(tmp) ==
  IF LessUnsigned(tmp, MR_MODULUS) THEN tmp ELSE SubUnsigned(tmp, MR_MODULUS)

\* My_random called with *state_p = old: the value it stores and returns.
My_random(seed, old) ==
  LET z0 == IF seed # 0 THEN Unsigned(seed) ELSE old
      tmp == MulUnsigned(z0, Unsigned(MR_MULTIPLIER))
  IN  ModModulus(tmp)

\* &state in a thread whose every frame shares one variable state.
State_p_Shared(t) == 0

\* &state in thread t: the variable state of the thread's own frame.
State_p(t) == t

\* main after its arguments are read.
InitRand ==
  /\ NoMpi /\ NoList /\ NoInput /\ NoDaxpy
  /\ prog = "pth_rand_safe"
  /\ thread_count \in 1 .. MaxThreads
  /\ n \in 0 .. MaxIter
  /\ total = 0 /\ mutex = Unset /\ sem = 0 /\ reported = Unset
  /\ thread = 0
  /\ main_pc = "pthread_create"
  /\ t_pc = [t \in 0 .. (thread_count - 1) |-> "not_created"]
  /\ t_i = [t \in 0 .. (thread_count - 1) |-> 0]
  /\ loaded = [t \in 0 .. (thread_count - 1) |-> 0]
  /\ state = [t \in 0 .. (thread_count - 1) |-> Unsigned(0)]
  /\ z = [t \in 0 .. (thread_count - 1) |-> Unsigned(0)]
  /\ output = [t \in 0 .. (thread_count - 1) |-> <<>>]

\* main: pthread_create of thread number thread, which starts Thread_work
\* with state = 0; after the last one main goes on to the joins.
Create_Thread_work ==
  /\ prog = "pth_rand_safe"
  /\ main_pc = "pthread_create"
  /\ thread < thread_count
  /\ state' = [state EXCEPT ![State_p(thread)] = Unsigned(0)]
  /\ t_pc' = [t_pc EXCEPT ![thread] = "seed"]
  /\ IF thread + 1 < thread_count
     THEN thread' = thread + 1 /\ UNCHANGED main_pc
     ELSE thread' = 0 /\ main_pc' = "pthread_join"
  /\ UNCHANGED <<prog, thread_count, total, mutex, sem, t_i, loaded, reported,
                 z, output, n, mpiVars, listVars, inputVars, daxpyVars>>

\* main: pthread_join returns once the thread has returned; after the last
\* one main returns.
Join_Thread_work ==
  /\ prog = "pth_rand_safe"
  /\ main_pc = "pthread_join"
  /\ t_pc[thread] = "returned"
  /\ IF thread + 1 < thread_count
     THEN thread' = thread + 1 /\ UNCHANGED main_pc
     ELSE thread' = thread_count /\ main_pc' = "return"
  /\ UNCHANGED <<prog, thread_count, total, mutex, sem, t_pc, t_i, loaded,
                 reported, randVars, n, mpiVars, listVars, inputVars, daxpyVars>>

\* My_random up to z = tmp % MR_MODULUS: *state_p is read and the new z is
\* computed.  The call is the seeding one, My_random(my_rank + 1, &state),
\* or the one of the printf, My_random(0, &state).
My_random_Compute(t) ==
  /\ prog = "pth_rand_safe"
  /\ t_pc[t] \in {"seed", "My_random"}
  /\ z' = [z EXCEPT ![t] = My_random(IF t_pc[t] = "seed" THEN t + 1 ELSE 0,
                                     state[State_p(t)])]
  /\ t_pc' = [t_pc EXCEPT ![t] = IF t_pc[t] = "seed" THEN "seed_store"
                                                     ELSE "store"]
  /\ UNCHANGED <<prog, thread_count, total, mutex, sem, thread, main_pc, t_i,
                 loaded, reported, state, output, n, mpiVars, listVars, inputVars, daxpyVars>>

\* The seeding call from *state_p = z to its return; the value is dropped
\* and the for loop starts with i = 0.
Seed_Store(t) ==
  /\ prog = "pth_rand_safe"
  /\ t_pc[t] = "seed_store"
  /\ state' = [state EXCEPT ![State_p(t)] = z[t]]
  /\ t_i' = [t_i EXCEPT ![t] = 0]
  /\ t_pc' = [t_pc EXCEPT ![t] = "for"]
  /\ UNCHANGED <<prog, thread_count, total, mutex, sem, thread, main_pc,
                 loaded, reported, z, output, n, mpiVars, listVars, inputVars, daxpyVars>>

\* Thread_work: the test i < n of the for loop.
Rand_For(t) ==
  /\ prog = "pth_rand_safe"
  /\ t_pc[t] = "for"
  /\ t_pc' = [t_pc EXCEPT ![t] = IF t_i[t] < n THEN "My_random"
                                               ELSE "returned"]
  /\ UNCHANGED <<prog, thread_count, total, mutex, sem, thread, main_pc, t_i,
                 loaded, reported, randVars, n, mpiVars, listVars, inputVars, daxpyVars>>

\* The call of the printf from *state_p = z to its return, the printf of
\* the value returned, then i++.
Store_Printf(t) ==
  /\ prog = "pth_rand_safe"
  /\ t_pc[t] = "store"
  /\ state' = [state EXCEPT ![State_p(t)] = z[t]]
  /\ output' = [output EXCEPT ![t] = Append(output[t], z[t])]
  /\ t_i' = [t_i EXCEPT ![t] = t_i[t] + 1]
  /\ t_pc' = [t_pc EXCEPT ![t] = "for"]
  /\ UNCHANGED <<prog, thread_count, total, mutex, sem, thread, main_pc,
                 loaded, reported, z, n, mpiVars, listVars, inputVars, daxpyVars>>

NextRand ==
  \/ Create_Thread_work
  \/ Join_Thread_work
  \/ \E t \in Threads : My_random_Compute(t)
  \/ \E t \in Threads : Seed_Store(t)
  \/ \E t \in Threads : Rand_For(t)
  \/ \E t \in Threads : Store_Printf(t)

SpecRand == InitRand /\ [][NextRand]_vars

--------------------------------------------------------------------------
(* Properties.                                                             *)

Elems(s) == {s[i] : i \in 1 .. Len(s)}

\* Number of elements the ranks bring in all.
Total == SumLen(my_contrib, p)

\* out is the ascending merge of all the contributions.
IsMergeOfAll(out) ==
  /\ Len(out) = Total
  /\ IsSorted(out)
  /\ \A v \in Elems(out) \cup UNION {Elems(my_contrib[r]) : r \in Ranks} :
       Count(out, v) = CountAll(my_contrib, p, v)

\* What a reader of rank 0's out arguments may see.
RootList == ReadList(0, list_p[0][1], size_p[0][1])

AllFinalized == \A r \in Ranks : pc[r] = "MPI_Finalize"

RECURSIVE SortedSeqOf(_)
SortedSeqOf(S) ==
  IF S = {} THEN <<>>
  ELSE LET lo == CHOOSE x \in S : \A y \in S : x <= y
       IN  <<lo>> \o SortedSeqOf(S \ {lo})

PrimesUpTo(nn) ==
  SortedSeqOf({i \in 2 .. nn : \A d \in 2 .. (i - 1) : i % d # 0})

\* C1: whenever the run of Merge_lists can go no further, rank 0 holds one
\* ascending sequence that is the multiset union of all contributions, of
\* length the sum of the input lengths.
C1_RootHoldsSortedUnion ==
  ENABLED Next \/
    (/\ list_p[0] # Unset
     /\ size_p[0] = <<Total>>
     /\ \A out \in RootList : IsMergeOfAll(out))

\* C2: for every n >= 2 and every p, the prime program ends with every
\* process at MPI_Finalize and rank 0 having printed exactly the primes
\* between 2 and n in ascending order.
C2_PrintsPrimes ==
  ENABLED NextPrimes \/ (AllFinalized /\ printed = <<PrimesUpTo(n)>>)

\* C3: the merge protocol never deadlocks: a run that can go no further
\* (and was not aborted) has every rank out of the Merge_lists loop, none
\* left inside MPI_Recv or MPI_Send.
C3_NoDeadlock == ENABLED Next \/ Aborted \/ AllFinalized

\* C4: two partners that are in the same round take complementary roles:
\* one sends to the other and the other receives from it.
C4_ComplementaryRoles ==
  \A r \in Ranks :
    LET q == Xor(r, bitmask[r]) IN
    (InLoop(r) /\ q < p /\ InLoop(q) /\ bitmask[q] = bitmask[r]) =>
      {Role(r, q, counts[r][q]), Role(q, r, counts[q][r])} = {"send", "recv"}

\* C5: after Merge of ascending a and b, the list my_list points to is
\* ascending, holds every value as often as a and b together do (so
\* [1,3,5] with [1,3,5] gives [1,1,3,3,5,5]) and the size is asize + bsize.
C5_MergeContract ==
  pc[0] = "Merge_done" =>
    LET a == my_contrib[0]
        b == mem[0][recv_list[0]]
        out == mem[0][my_list[0]]
    IN  /\ curr_size[0] = Len(a) + Len(b)
        /\ Len(out) = curr_size[0]
        /\ IsSorted(out)
        /\ \A v \in Elems(a) \cup Elems(b) \cup Elems(out) :
             Count(out, v) = Count(a, v) + Count(b, v)
        /\ (a = <<1, 3, 5>> /\ b = <<1, 3, 5>>) => out = <<1, 1, 3, 3, 5, 5>>

C5_Witness ==
  /\ pc[0] = "Merge_done"
  /\ my_contrib[0] = <<1, 3, 5>>
  /\ mem[0][recv_list[0]] = <<1, 3, 5>>
  /\ mem[0][my_list[0]] = <<1, 1, 3, 3, 5, 5>>

\* C6: no message a rank receives is longer than recv_counts[rank], the
\* size of the recv_list block allocated before the loop.
C6_RecvCapacity ==
  \A r \in Ranks :
    /\ status[r] <= recv_counts[r][r]
    /\ status[r] <= my_recv_size[r]
    /\ pc[r] # "aborted" \/ partner[r] >= p

C6_Witness ==
  \E r \in Ranks : \E q \in Ranks :
    /\ r # q
    /\ status[r] > MaxLen /\ status[r] = my_recv_size[r]
    /\ status[q] > 0 /\ status[q] < status[r]

\* C7: only rank 0 gets output: once Merge_lists has returned on rank 0,
\* *list_p is my_list and *size_p the sum of all counts; no other rank ever
\* writes *list_p or *size_p, and it has freed its blocks when it returns.
C7_RootOnlyOutput ==
  \A r \in Ranks :
    IF r = 0
    THEN /\ pc[0] \in {"Print_primes", "MPI_Finalize"} =>
              (list_p[0] = <<my_list[0]>> /\ size_p[0] = <<Total>>)
         /\ pc[0] \notin {"Print_primes", "MPI_Finalize"} =>
              (list_p[0] = Unset /\ size_p[0] = Unset)
    ELSE /\ list_p[r] = Unset
         /\ size_p[r] = Unset
         /\ pc[r] = "MPI_Finalize" => live[r] = {}

C7_Witness ==
  /\ p > 2
  /\ pc[0] = "Print_primes"
  /\ size_p[0] = <<Total>> /\ Total > MaxLen
  /\ \E r \in Ranks : r # 0 /\ pc[r] = "MPI_Finalize" /\ my_size[r] > 0

\* C8: a rank whose higher-ranked partner has nothing to contribute does
\* not send in that round: no rank ever sends to a higher rank whose count
\* is 0.
C8_EmptyPartnerSkipped ==
  \A r \in Ranks :
    (pc[r] = "MPI_Send" \/ done[r] = 1) =>
      ~(r < partner[r] /\ partner[r] < p /\ counts[r][partner[r]] = 0)

\* C9: a rank whose partner is >= p neither sends nor receives in that
\* round: MPI_Send is never called with a destination >= p.
C9_NoSendOutsideComm ==
  \A r \in Ranks : partner[r] >= p => pc[r] # "aborted"

\* C10: with P = 4 and the contributions [2,3], [5], [7,11,13], [] the run
\* ends with all four ranks finished and rank 0 holding [2,3,5,7,11,13],
\* size 6.
C10_Scenario ==
  (p = 4 /\ my_contrib = Scenario) =>
    \/ ENABLED Next
    \/ /\ AllFinalized
       /\ size_p[0] = <<6>>
       /\ RootList = {<<2, 3, 5, 7, 11, 13>>}

--------------------------------------------------------------------------
(* Rounds and accumulated counts.                                          *)

RECURSIVE Log2(_)
Log2(b) == IF b <= 1 THEN 0 ELSE 1 + Log2(b \div 2)

\* The least k with 2^k >= P.
RECURSIVE CeilLog2From(_, _, _)
CeilLog2From(P, k, pow) == IF pow >= P THEN k ELSE CeilLog2From(P, k + 1, 2 * pow)

CeilLog2(P) == CeilLog2From(P, 0, 1)

\* Iterations of the while loop rank r has started: one per bitmask <<= 1,
\* and the one that called MPI_Send or hit an MPI error.
Rounds(r) ==
  Log2(bitmask[r]) +
  (IF done[r] = 1 \/ pc[r] \in {"MPI_Send", "aborted"} THEN 1 ELSE 0)

\* The largest power of two dividing q > 0.
RECURSIVE LowBit(_)
LowBit(q) == IF q % 2 = 1 THEN 1 ELSE 2 * LowBit(q \div 2)

\* The ranks whose elements end up in rank q's list before q sends.
Subtree(q) ==
  IF q = 0 THEN Ranks ELSE {j \in Ranks : j >= q /\ j < q + LowBit(q)}

RECURSIVE SumOver(_, _)
SumOver(f, S) ==
  IF S = {} THEN 0
  ELSE LET x == CHOOSE y \in S : TRUE IN Len(f[x]) + SumOver(f, S \ {x})

\* C11: with p = 1 Merge_lists runs no round (bitmask stays 1, nothing is
\* sent or received, my_list and temp are never exchanged by Merge) and
\* rank 0's output is its own input with the size its input count.
C11_SingleWorker ==
  p = 1 =>
    /\ bitmask[0] = 1 /\ done[0] = 0 /\ partner[0] = 0
    /\ msgs = {} /\ status[0] = 0 /\ recv_count[0] = 0
    /\ pc[0] \notin {"MPI_Send", "aborted"}
    /\ temp[0] # "m_list" /\ my_list[0] # "m_temp"
    /\ pc[0] = "Print_primes" =>
         (size_p[0] = <<Len(my_contrib[0])>> /\ RootList = {my_contrib[0]})
    /\ printed # Unset => printed = <<my_contrib[0]>>

C11_Witness ==
  /\ p = 1
  /\ pc[0] = "MPI_Finalize"
  /\ Len(my_contrib[0]) = MaxLen
  /\ size_p[0] = <<MaxLen>>
  /\ printed = <<my_contrib[0]>>

\* C12: rank 0 never calls MPI_Send in Merge_lists, and when the run can go
\* no further every other rank has called it and has left the loop by it.
C12_OnlyRootNeverSends ==
  /\ pc[0] # "MPI_Send" /\ done[0] = 0
  /\ ENABLED Next \/ \A r \in Ranks \ {0} : done[r] = 1

\* C13: a rank has at most one message in flight, a rank that has sent is
\* out of the loop for good, and when the run can go no further every rank
\* but 0 has sent (done = 1).
C13_SendOnceAndTerminal ==
  /\ \A r \in Ranks : Cardinality({m \in msgs : m.src = r}) <= 1
  /\ \A r \in Ranks : done[r] = 1 => pc[r] \in {"Print_primes", "MPI_Finalize"}
  /\ ENABLED Next \/ \A r \in Ranks \ {0} : done[r] = 1

\* C14: no rank starts more than ceil(log2 p) iterations of the loop.
C14_RoundsBounded ==
  \A r \in Ranks : Rounds(r) <= CeilLog2(p)

C14_Witness ==
  /\ p = 3
  /\ Rounds(0) = 2 /\ bitmask[0] = 4
  /\ Rounds(1) = 1 /\ done[1] = 1

\* C15: Merge with a empty gives b, and with b empty gives a, with the size
\* the length of the other list.
C15_MergeEmptyInput ==
  pc[0] = "Merge_done" =>
    LET a == my_contrib[0]
        b == mem[0][recv_list[0]]
        out == mem[0][my_list[0]]
    IN  /\ a = <<>> => (out = b /\ curr_size[0] = Len(b))
        /\ b = <<>> => (out = a /\ curr_size[0] = Len(a))

C15_Witness ==
  /\ pc[0] = "Merge_done"
  /\ my_contrib[0] = <<>>
  /\ mem[0][recv_list[0]] = <<2, 4>>
  /\ mem[0][my_list[0]] = <<2, 4>>
  /\ curr_size[0] = 2

\* C16 as stated: once the sizes are gathered, counts[q] on every rank is
\* the count rank q contributed.
C16_CountsAsContributed ==
  \A r \in Ranks : \A q \in Ranks :
    pc[r] \notin {"main", "Allgather"} => counts[r][q] = Len(my_contrib[q])

\* C16 amended: once Compute_list_sizes has returned, counts[q] on every
\* rank is, for the rest of Merge_lists, the accumulated count of rank q:
\* the sum of the counts contributed by the ranks q .. q + lowbit(q) - 1
\* below p (all ranks for q = 0).
C16_CountsAccumulated ==
  LET accumulated == [q \in Ranks |-> SumOver(my_contrib, Subtree(q))]
  IN  \A r \in Ranks :
        pc[r] \notin {"main", "Allgather"} => counts[r] = accumulated

C16_Witness ==
  /\ p = 4
  /\ pc[0] = "Print_primes"
  /\ Len(my_contrib[2]) > 0 /\ Len(my_contrib[3]) > 0
  /\ counts[0][2] = Len(my_contrib[2]) + Len(my_contrib[3])
  /\ counts[1][0] = Total

--------------------------------------------------------------------------
(* The linked list.                                                        *)

\* The nodes reachable from h_p by next_p, and their strings, in order.
ListAddrs == Chain(h_p, MaxNodes + 1)

Contents == [k \in 1 .. Len(ListAddrs) |-> nodes[ListAddrs[k]].data]

\* The nodes reachable from t_p by prev_p, in order.
RECURSIVE BackChain(_, _)
BackChain(curr_p, fuel) ==
  IF curr_p = NULL \/ fuel = 0 THEN <<>>
  ELSE <<curr_p>> \o BackChain(nodes[curr_p].prev_p, fuel - 1)

BackAddrs == BackChain(t_p, MaxNodes + 1)

Reverse(s) == [k \in 1 .. Len(s) |-> s[Len(s) + 1 - k]]

\* The nodes of the list but the one that holds string, in order.
AddrsWithout(string) ==
  SelectSeq(ListAddrs, LAMBDA a : nodes[a].data # string)

\* C17: the strings reachable from h_p by next_p are in strictly ascending
\* strcmp order, so no string occurs twice.
C17_ListStrictlyAscending ==
  /\ Len(ListAddrs) <= MaxNodes
  /\ \A k \in 1 .. (Len(Contents) - 1) : strcmp(Contents[k], Contents[k + 1]) < 0
  /\ \A j \in 1 .. Len(Contents) : \A k \in 1 .. Len(Contents) :
       j # k => Contents[j] # Contents[k]

C17_Witness ==
  /\ command = "i" /\ ~was_in
  /\ Contents = <<<<1>>, <<1, 2>>, <<2>>>>
  /\ ListAddrs[2] > ListAddrs[3]

\* C18: Insert of a string in the list and Delete of a string not in the
\* list leave head, tail and every node as they were; Delete of a string
\* in the list removes the one node that holds it and leaves the other
\* nodes, their strings and their order as they were, forwards and
\* backwards.
C18_FrameOfInsertAndDelete ==
  [][\A string \in Strings :
       /\ (Command_i(string) /\ string \in Elems(Contents)) =>
            UNCHANGED <<h_p, t_p, nodes>>
       /\ (Command_d(string) /\ string \notin Elems(Contents)) =>
            UNCHANGED <<h_p, t_p, nodes>>
       /\ (Command_d(string) /\ string \in Elems(Contents)) =>
            /\ ListAddrs' = AddrsWithout(string)
            /\ Len(ListAddrs') = Len(ListAddrs) - 1
            /\ \A a \in Elems(ListAddrs') : nodes'[a].data = nodes[a].data
            /\ BackAddrs' = Reverse(ListAddrs')]_vars

C18_Witness ==
  /\ command = "d" /\ was_in
  /\ Len(ListAddrs) = MaxNodes - 1
  /\ BackAddrs = Reverse(ListAddrs)
  /\ \E string \in Strings \ inserted :
       strcmp(Contents[1], string) < 0 /\ strcmp(string, Contents[2]) < 0

\* C19: Member(s) is 1 exactly for the strings inserted and not removed
\* since by Delete or Free_list, and so is the value the last call of
\* Member returned.
C19_MemberIffInserted ==
  /\ \A string \in Strings : (Member(string) = 1) <=> (string \in inserted)
  /\ \A string \in Strings : Member(string) \in {0, 1}
  /\ command = "m" => ret = (IF was_in THEN 1 ELSE 0)

C19_Witness ==
  /\ command = "m" /\ ~was_in /\ ret = 0
  /\ Len(ListAddrs) >= 2
  /\ \E string \in Strings \ inserted :
       /\ strcmp(Contents[1], string) < 0
       /\ strcmp(string, Contents[Len(Contents)]) < 0

--------------------------------------------------------------------------
(* The counter of many_mutexes and many_sems.                              *)

\* C20: once main has joined all threads, total is thread_count * n, and
\* that is the total main prints.
C20_NoLostIncrement ==
  /\ main_pc \in {"printf", "return"} => total = thread_count * n
  /\ reported # Unset => reported = <<thread_count * n>>

C20_Witness ==
  /\ prog = "many_sems"
  /\ thread_count = MaxThreads /\ n = MaxIter
  /\ main_pc = "return"
  /\ reported = <<MaxThreads * MaxIter>>

--------------------------------------------------------------------------
(* pth_rand_safe.c                                                         *)

\* The state of the generator of one thread run alone with the given seed,
\* after the seeding call and k further calls.
RECURSIVE AloneState(_, _)
AloneState(seed, k) ==
  IF k = 0 THEN My_random(seed, Unsigned(0))
  ELSE My_random(0, AloneState(seed, k - 1))

\* C21: under every interleaving the values thread r prints are the ones a
\* single thread seeded with r + 1 prints when run alone, and a thread that
\* has returned has printed n of them.
C21_ThreadSafe ==
  prog = "pth_rand_safe" =>
    \A t \in Threads :
      /\ output[t] = [k \in 1 .. Len(output[t]) |-> AloneState(t + 1, k)]
      /\ t_pc[t] = "returned" => Len(output[t]) = n

\* C21 witness: two threads are inside My_random at once, between its read
\* and its write of *state_p, each having printed a value already.
C21_Witness ==
  /\ prog = "pth_rand_safe"
  /\ thread_count >= 2
  /\ t_pc[0] = "store" /\ t_pc[1] = "store"
  /\ Len(output[0]) >= 1 /\ Len(output[1]) >= 1
  /\ output[0] # output[1]

--------------------------------------------------------------------------
(* Compute_list_sizes against the topology of the exchange.                *)

\* The bitmasks of the rounds in which rank r receives: r is a multiple of
\* 2*mask and its partner r XOR mask is below p.
RecvMasks(r) ==
  {m \in {1, 2, 4, 8} : m < p /\ r % (2 * m) = 0 /\ Xor(r, m) < p}

\* What the partner of rank r in the round of mask m has accumulated by
\* then: the contributions of the ranks r + m .. r + 2m - 1 below p.
PartnerCount(r, m) ==
  SumLen(my_contrib, Min(r + 2 * m, p)) - SumLen(my_contrib, r + m)

\* Every rank is back from Compute_list_sizes and none has gone through a
\* round of the loop yet.
JustReturned ==
  \A r \in Ranks : pc[r] = "loop" /\ bitmask[r] = 1 /\ done[r] = 0

RECURSIVE SumInts(_, _)
SumInts(f, S) ==
  IF S = {} THEN 0
  ELSE LET x == CHOOSE y \in S : TRUE IN f[x] + SumInts(f, S \ {x})

\* C22: on return from Compute_list_sizes recv_counts[r] is the largest
\* accumulated count of r's partners over the rounds in which r receives
\* (0 without such a round), prime_counts[r] is r's own count plus the
\* accumulated counts of those partners, and prime_counts[0] is the sum of
\* all the counts.
C22_ListSizesMatchTopology ==
  LET accum(r) == [m \in RecvMasks(r) |-> PartnerCount(r, m)]
      largest == [r \in Ranks |->
                    IF RecvMasks(r) = {} THEN 0
                    ELSE CHOOSE c \in {accum(r)[m] : m \in RecvMasks(r)} :
                           \A m \in RecvMasks(r) : accum(r)[m] <= c]
      summed == [r \in Ranks |->
                    Len(my_contrib[r]) + SumInts(accum(r), RecvMasks(r))]
  IN  JustReturned =>
        \A r \in Ranks :
          /\ recv_counts[r] = largest
          /\ counts[r] = summed
          /\ counts[r][0] = Total

\* C22 witness: four ranks, rank 0 receives one element in the first round
\* and more in the second, rank 2 receives from rank 3, and the odd ranks
\* receive nothing.
C22_Witness ==
  /\ p = 4
  /\ JustReturned
  /\ Len(my_contrib[1]) = 1
  /\ Len(my_contrib[2]) > 0 /\ Len(my_contrib[3]) > 0
  /\ recv_counts[0][0] = Len(my_contrib[2]) + Len(my_contrib[3])
  /\ recv_counts[0][2] = Len(my_contrib[3])
  /\ recv_counts[0][1] = 0 /\ recv_counts[0][3] = 0

--------------------------------------------------------------------------
(* The else branch of the loop of Merge_lists.                             *)

\* The accumulated list of rank r: the first curr_size elements of my_list.
Accumulated(r) ==
  IF my_list[r] = "NULL" THEN <<>>
  ELSE SubSeq(mem[r][my_list[r]], 1,
              Min(curr_size[r], Len(mem[r][my_list[r]])))

\* C23: a message in flight is the sender's whole accumulated list, no more
\* and no less; the sender is in its last round; and a run that can go no
\* further has no rank still inside MPI_Send (each sender became DONE_SENT).
C23_SendsListAndStops ==
  /\ \A m \in msgs :
       /\ m.len = curr_size[m.src]
       /\ m.data = Accumulated(m.src)
       /\ pc[m.src] = "loop" => done[m.src] = 1
  /\ \A r \in Ranks : done[r] = 1 => pc[r] # "loop"
  /\ ENABLED Next \/ \A r \in Ranks : pc[r] # "MPI_Send"

--------------------------------------------------------------------------
(* Stability of Merge.                                                     *)

\* C24: Merge is stable.  Every element of a and of b is copied once; the
\* elements of a keep their order, and so do those of b; and an element of
\* b comes before an element of a only when it is strictly smaller, so of
\* two equal elements the one of a (the first argument) comes first.  The
\* list Merge leaves in my_list is the one these copies give.
C24_MergeStable ==
  pc[0] = "Merge_done" =>
    LET a == my_contrib[0]
        b == mem[0][recv_list[0]]
        out == mem[0][my_list[0]]
        from == MergeOrigins(a, Len(a), b, Len(b), 0, 0, <<>>)
        val(o) == IF o.from = "a" THEN a[o.at] ELSE b[o.at]
    IN  /\ Len(from) = Len(a) + Len(b)
        /\ Elems(from) = {[from |-> "a", at |-> i] : i \in 1 .. Len(a)}
                           \cup {[from |-> "b", at |-> j] : j \in 1 .. Len(b)}
        /\ out = [k \in 1 .. Len(from) |-> val(from[k])]
        /\ \A k, l \in 1 .. Len(from) :
             k < l =>
               /\ from[k].from = from[l].from => from[k].at < from[l].at
               /\ (from[k].from = "b" /\ from[l].from = "a") =>
                    val(from[k]) < val(from[l])

\* C24 witness: a and b share the value 2, twice in a; the 2s of a come
\* first, in their order, before the 2 of b.
C24_Witness ==
  /\ pc[0] = "Merge_done"
  /\ my_contrib[0] = <<2, 2>>
  /\ mem[0][recv_list[0]] = <<2, 3>>
  /\ mem[0][my_list[0]] = <<2, 2, 2, 3>>
  /\ MergeOrigins(<<2, 2>>, 2, <<2, 3>>, 2, 0, 0, <<>>) =
       <<[from |-> "a", at |-> 1], [from |-> "a", at |-> 2],
         [from |-> "b", at |-> 1], [from |-> "b", at |-> 2]>>

--------------------------------------------------------------------------
(* The buffers of Merge.                                                   *)

\* C25: a step that calls Merge on rank r leaves in my_list the block temp
\* pointed to and in temp the block my_list pointed to; the two are distinct
\* blocks before and after, neither is the block of recv_list, and the
\* received list b in recv_list is after the call what was received, with
\* the length recv_count.
C25_MergeExchangesBuffers ==
  [][\A r \in Ranks :
       (msgs' # msgs /\ Recv(r) /\ pc'[r] # "aborted") =>
         /\ my_list'[r] = temp[r] /\ temp'[r] = my_list[r]
         /\ {my_list[r], temp[r]} = {"m_list", "m_temp"}
         /\ my_list[r] # temp[r] /\ my_list'[r] # temp'[r]
         /\ recv_list'[r] = "m_recv"
         /\ \E m \in msgs \ msgs' :
              /\ mem'[r][recv_list[r]] = m.data
              /\ Len(m.data) = recv_count'[r]]_vars

\* C25 witness: rank 0 of four has called Merge twice and has its first
\* block back in my_list, rank 2 has called it once and has the other one.
C25_Witness ==
  /\ p = 4
  /\ bitmask[0] = 4 /\ status[0] > 0
  /\ my_list[0] = "m_list" /\ temp[0] = "m_temp"
  /\ curr_size[0] = Total /\ Total > Len(my_contrib[0]) + Len(my_contrib[1])
  /\ Len(my_contrib[1]) > 0
  /\ bitmask[2] = 2 /\ status[2] > 0
  /\ my_list[2] = "m_temp" /\ temp[2] = "m_list"

--------------------------------------------------------------------------
(* The subtree a rank has merged.                                          *)

\* s and t hold every value equally often.
SameMultiset(s, t) ==
  /\ Len(s) = Len(t)
  /\ \A v \in Elems(s) \cup Elems(t) : Count(s, v) = Count(t, v)

RECURSIVE Concat(_, _, _)
Concat(f, lo, hi) == IF lo > hi THEN <<>> ELSE f[lo] \o Concat(f, lo + 1, hi)

\* C26: with p a power of two and every contribution non-empty, the
\* accumulated list of every rank is ascending at all times, and once rank r
\* has completed its receive for mask m (bitmask is then 2m) the list holds
\* exactly the contributions of the ranks r .. r + 2m - 1, each element as
\* often as these ranks bring it.
C26_SubtreeMerged ==
  (p \in {1, 2, 4, 8} /\ \A q \in Ranks : Len(my_contrib[q]) > 0) =>
    \A r \in Ranks :
      pc[r] \notin {"main", "Allgather"} =>
        /\ Len(mem[r][my_list[r]]) >= curr_size[r]
        /\ IsSorted(Accumulated(r))
        /\ SameMultiset(Accumulated(r),
                        Concat(my_contrib, r, r + bitmask[r] - 1))

\* C26 witness: four ranks with non-empty contributions; rank 0 has
\* completed its receives for the masks 1 and 2 and holds every element,
\* rank 2 the one for mask 1; the lists interleave.
C26_Witness ==
  /\ p = 4
  /\ \A q \in Ranks : Len(my_contrib[q]) > 0
  /\ pc[0] = "loop" /\ bitmask[0] = 4 /\ curr_size[0] = Total
  /\ bitmask[2] = 2
  /\ curr_size[2] = Len(my_contrib[2]) + Len(my_contrib[3])
  /\ Len(my_contrib[0]) = 2 /\ my_contrib[0][2] > my_contrib[3][1]

--------------------------------------------------------------------------
(* Conditional correctness.                                                *)

\* p is a power of two and, in every round in which a rank is the lower one
\* of its pair, the accumulated count of its partner is positive.
PartnersNonEmpty ==
  /\ p \in {1, 2, 4, 8}
  /\ \A r \in Ranks : \A m \in RecvMasks(r) : PartnerCount(r, m) > 0

\* C27: if p is a power of two and every partner a rank meets as the lower
\* rank of the pair has a positive accumulated count, the run is never
\* aborted and, past the allgather that every rank starts with, can go no
\* further only with every rank at MPI_Finalize and rank 0 holding the
\* ascending union of all contributions; the guard reads the accumulated
\* count, so this covers a partner that brings nothing itself but has
\* received something.
C27_ConditionalCorrectness ==
  PartnersNonEmpty =>
    /\ ~Aborted
    /\ \A r \in Ranks :
         pc[r] \notin {"main", "Allgather"} =>
           \A m \in RecvMasks(r) : counts[r][Xor(r, m)] > 0
    /\ (\A q \in Ranks : pc[q] = "Allgather") \/ ENABLED Next \/
         (/\ AllFinalized
          /\ list_p[0] # Unset
          /\ size_p[0] = <<Total>>
          /\ \A out \in RootList : IsMergeOfAll(out))

\* C27 witness: four ranks, rank 2 brings nothing and rank 3 something;
\* rank 2 has received from rank 3, rank 0 has then received from rank 2,
\* and the run has ended with rank 0 holding every element.
C27_Witness ==
  /\ p = 4
  /\ my_contrib[2] = <<>>
  /\ Len(my_contrib[3]) > 0 /\ Len(my_contrib[1]) > 0
  /\ AllFinalized
  /\ status[2] = Len(my_contrib[3])
  /\ partner[0] = 2 /\ status[0] = Len(my_contrib[3])
  /\ size_p[0] = <<Total>>

--------------------------------------------------------------------------
(* Sizes sent and reported.                                                *)

\* C28: the count of every MPI_Send is the sender's curr_size, the number
\* of elements its list holds, and the size rank 0 hands out is its
\* curr_size; so every element sent or reported is initialised.
C28_SizesAreCurrSize ==
  /\ \A m \in msgs : m.len = curr_size[m.src] /\ Len(m.data) = m.len
  /\ size_p[0] # Unset => size_p[0] = <<curr_size[0]>>

--------------------------------------------------------------------------
(* Capacity of my_list and temp.                                           *)

\* C29: Merge never writes past the my_size ints of my_list and temp: the
\* list a rank has accumulated, and each of the two blocks as written, is
\* at most my_size long (at a call of Merge curr_size + recv_count is the
\* new curr_size), and a rank with my_size = 0, whose my_list and temp are
\* NULL, has never received nor called Merge.
C29_MergeWithinCapacity ==
  \A r \in Ranks :
    pc[r] \notin {"main", "Allgather"} =>
      /\ curr_size[r] <= my_size[r]
      /\ \A blk \in {"m_list", "m_temp"} : Len(mem[r][blk]) <= my_size[r]
      /\ my_size[r] = 0 =>
           /\ my_list[r] = "NULL" /\ temp[r] = "NULL"
           /\ recv_count[r] = 0 /\ status[r] = 0 /\ curr_size[r] = 0

\* C29 witness: rank 0 of four has merged the list of rank 1 into its own,
\* within its block; rank 3 brought nothing, has NULL buffers and has sent.
C29_Witness ==
  /\ p = 4
  /\ bitmask[0] = 2 /\ recv_count[0] = Len(my_contrib[1])
  /\ Len(my_contrib[0]) > 0 /\ Len(my_contrib[1]) > 0
  /\ curr_size[0] = Len(my_contrib[0]) + Len(my_contrib[1])
  /\ Len(mem[0][my_list[0]]) = curr_size[0]
  /\ curr_size[0] < my_size[0]
  /\ my_size[3] = 0 /\ my_list[3] = "NULL" /\ done[3] = 1

--------------------------------------------------------------------------
(* Reads of counts.                                                        *)

\* C30: counts is indexed within 0 .. p-1 only.  The guard of the loop reads
\* counts[partner] whenever my_rank < partner, so by the time partner is
\* set to a rank the read has happened for every partner above my_rank:
\* no rank ever has a partner of p or more.
C30_CountsReadInBounds ==
  \A r \in Ranks : partner[r] < p

--------------------------------------------------------------------------
(* Messages and receives left over.                                        *)

\* C31: no orphan messages.  A run that can go no further (and was not
\* aborted) has no message sent and never received, and no rank left inside
\* the loop waiting in MPI_Recv or MPI_Send for a partner that will not come:
\* every rank is at MPI_Finalize.
C31_NoOrphanMessages ==
  ENABLED Next \/ Aborted \/
    (/\ msgs = {}
     /\ \A r \in Ranks : pc[r] = "MPI_Finalize")

--------------------------------------------------------------------------
(* Get_n of the two prime programs: rank 0 reads n from the command line,  *)
(* n is broadcast, and every rank either returns it to main or quits.      *)

\* (int) of the long k * 2^32 + v that strtol returned: the low 32 bits.
IntOfLong(l) == l[2]

\* What rank 0 stores in n before the broadcast.
Read_n == IF argc # 2 THEN -1 ELSE IntOfLong(argv1)

\* Where a rank is after n <= 1 was broadcast.  In mpi_primes_sort.c rank 0
\* prints the usage text itself and goes on to MPI_Finalize; in the other
\* program rank 0 calls Usage, which ends the process with exit(0).
Rejected(r) ==
  IF mpi_prog = "mpi_primes" /\ r = 0 THEN "exit in Usage" ELSE "MPI_Finalize"

\* main started with its command line, MPI_Init and the rank and size
\* calls done, every rank about to call Get_n.
InitGetN ==
  /\ mpi_prog \in {"mpi_primes_sort", "mpi_primes"}
  /\ argc \in 1 .. 3
  /\ argv1 \in IF argc = 2 THEN (0 .. 1) \X (-1 .. MaxN) ELSE {<<0, 0>>}
  /\ NoDaxpy
  /\ \E P \in 1 .. MaxP : Locals(P, 0, [r \in 0 .. (P - 1) |-> <<>>], "Get_n")

\* Get_n on every rank: MPI_Bcast is a collective rooted at rank 0.
Get_n ==
  /\ \A q \in Ranks : pc[q] = "Get_n"
  /\ n' = Read_n
  /\ pc' = [q \in Ranks |-> IF n' <= 1 THEN Rejected(q) ELSE "main"]
  /\ UNCHANGED <<p, my_contrib, counts, recv_counts, my_size, my_recv_size,
                 curr_size, done, partner, bitmask, recv_count, status, my_list,
                 temp, recv_list, mem, live, msgs, eager, list_p, size_p,
                 printed>>
  /\ UNCHANGED <<listVars, threadVars, randVars, inputVars, daxpyVars>>

NextGetN ==
  \/ Get_n
  \/ NextPrimes

SpecGetN == InitGetN /\ [][NextGetN]_vars

\* C32: invalid input is rejected uniformly.  Once Get_n has seen an
\* argument count other than 2 or a value n <= 1, every rank, rank 0
\* included, is at MPI_Finalize, and nothing of Print_primes or Merge_lists
\* has run.
C32_RejectedUniformly ==
  (mpi_prog # "none" /\ n <= 1 /\ \E q \in Ranks : pc[q] # "Get_n") =>
    \A r \in Ranks :
      /\ pc[r] = "MPI_Finalize"
      /\ my_list[r] = "NULL" /\ msgs = {} /\ list_p[r] = Unset

--------------------------------------------------------------------------
(* The local contributions of the prime search.                            *)

\* The ranks whose search loop hands i to Is_prime.
TestedBy(i) == {q \in Ranks : \E k \in 1 .. Len(Tested(n, p, q)) :
                                  Tested(n, p, q)[k] = i}

StrictlyAscending(s) == \A i \in 1 .. (Len(s) - 1) : s[i] < s[i + 1]

\* C33: the local contributions satisfy the merge precondition.  Every odd
\* integer in [3, n] is tested by exactly one rank, rank ((i-3)/2) mod p;
\* a rank that has finished its search holds, in the order tested, the
\* primes among the integers it tested, after 2 on rank 0 and on rank 0
\* only; each list is strictly ascending and the lists of distinct ranks
\* are disjoint.
C33_LocalContributions ==
  n >= 2 =>
    /\ \A i \in 3 .. n :
         i % 2 = 1 => TestedBy(i) = {((i - 3) \div 2) % p}
    /\ \A r \in Ranks :
         /\ pc[r] # "main" =>
              my_contrib[r] = (IF r = 0 THEN <<2>> ELSE <<>>)
                                \o SelectSeq(Tested(n, p, r), Is_prime)
         /\ StrictlyAscending(my_contrib[r])
         /\ 2 \in Elems(my_contrib[r]) <=> (r = 0 /\ pc[r] # "main")
         /\ \A q \in Ranks \ {r} :
              Elems(my_contrib[r]) \cap Elems(my_contrib[q]) = {}

\* C33 witness: three ranks have finished the search up to n = 11 with 2
\* and 3 on rank 0, 5 and 11 on rank 1 and 7 on rank 2 (9 was tested by rank
\* 0 and found composite).
C33_Witness ==
  /\ p = 3 /\ n = 11
  /\ my_contrib = [r \in 0 .. 2 |-> <<<<2, 3>>, <<5, 11>>, <<7>>>>[r + 1]]
  /\ \A r \in Ranks : pc[r] # "main"

\* C34: the local prime buffer is never overrun.  The number of elements a
\* rank has written to my_primes is at most local_n = n/(2*p) + 2.
C34_BufferNotOverrun ==
  n >= 2 => \A r \in Ranks : Len(my_contrib[r]) <= Local_n(n, p)

\* C34 witness: a rank has filled my_primes to its last element
\* (n = 7, p = 2: rank 0 holds 2, 3 and 7 and local_n is 3).
C34_Witness ==
  /\ n >= 2
  /\ \E r \in Ranks :
       /\ pc[r] # "main"
       /\ Len(my_contrib[r]) = Local_n(n, p)

--------------------------------------------------------------------------
(* pth_daxpy.c: thread_count threads update y += alpha*x, each on its own  *)
(* block of n/thread_count consecutive indices.  y[i] += alpha*x[i] is a   *)
(* read of y[i] followed by a write of y[i].  The doubles are drawn from   *)
(* small integers, whose products and sums are exact in double arithmetic. *)

MaxDim == 4

Values == {1, 2}

\* local_n of Pth_daxpy.
Pth_daxpy_local_n == n \div thread_count

\* my_first_i taken to be the rank itself.
My_first_i_Rank(my_rank) == my_rank

My_first_i(my_rank) == my_rank * Pth_daxpy_local_n

My_last_i(my_rank) == My_first_i(my_rank) + Pth_daxpy_local_n

\* main after thread_count, n, x, y and alpha are read.
InitDaxpy ==
  /\ NoMpi /\ NoList /\ NoRand /\ NoInput
  /\ prog = "pth_daxpy"
  /\ thread_count \in 1 .. MaxThreads
  /\ n \in 0 .. MaxDim
  /\ total = 0 /\ mutex = Unset /\ sem = 0 /\ reported = Unset
  /\ thread = 0
  /\ main_pc = "pthread_create"
  /\ t_pc = [t \in 0 .. (thread_count - 1) |-> "not_created"]
  /\ t_i = [t \in 0 .. (thread_count - 1) |-> 0]
  /\ loaded = [t \in 0 .. (thread_count - 1) |-> 0]
  /\ x_vec \in [0 .. (n - 1) -> Values]
  /\ y_vec \in [0 .. (n - 1) -> Values]
  /\ alpha \in Values
  /\ y_read = y_vec
  /\ y_stores = [i \in 0 .. (n - 1) |-> 0]

\* main: pthread_create of thread number thread, which sets its locals and
\* starts its for loop at my_first_i; after the last one main goes on to
\* the joins.
Create_Pth_daxpy ==
  /\ prog = "pth_daxpy"
  /\ main_pc = "pthread_create"
  /\ thread < thread_count
  /\ t_pc' = [t_pc EXCEPT ![thread] = "for"]
  /\ t_i' = [t_i EXCEPT ![thread] = My_first_i(thread)]
  /\ IF thread + 1 < thread_count
     THEN thread' = thread + 1 /\ UNCHANGED main_pc
     ELSE thread' = 0 /\ main_pc' = "pthread_join"
  /\ UNCHANGED <<prog, thread_count, total, mutex, sem, loaded, reported,
                 daxpyVars, n, mpiVars, listVars, randVars, inputVars>>

\* main: pthread_join returns once the thread has returned; after the last
\* one main goes on to print y.
Join_Pth_daxpy ==
  /\ prog = "pth_daxpy"
  /\ main_pc = "pthread_join"
  /\ t_pc[thread] = "returned"
  /\ IF thread + 1 < thread_count
     THEN thread' = thread + 1 /\ UNCHANGED main_pc
     ELSE thread' = thread_count /\ main_pc' = "Print_vector"
  /\ UNCHANGED <<prog, thread_count, total, mutex, sem, t_pc, t_i, loaded,
                 reported, daxpyVars, n, mpiVars, listVars, randVars,
                 inputVars>>

\* main: Print_vector("The product is", y, n), then main returns.
Print_product ==
  /\ prog = "pth_daxpy"
  /\ main_pc = "Print_vector"
  /\ reported' = <<y_vec>>
  /\ main_pc' = "return"
  /\ UNCHANGED <<prog, thread_count, total, mutex, sem, thread, t_pc, t_i,
                 loaded, daxpyVars, n, mpiVars, listVars, randVars,
                 inputVars>>

\* Pth_daxpy: the test i < my_last_i of the for loop.
Daxpy_For(t) ==
  /\ prog = "pth_daxpy"
  /\ t_pc[t] = "for"
  /\ t_pc' = [t_pc EXCEPT ![t] = IF t_i[t] < My_last_i(t) THEN "load"
                                                          ELSE "returned"]
  /\ UNCHANGED <<prog, thread_count, total, mutex, sem, thread, main_pc, t_i,
                 loaded, reported, daxpyVars, n, mpiVars, listVars, randVars,
                 inputVars>>

\* y[i] += alpha*x[i], first half: y[i] is read.
Load_y(t) ==
  /\ prog = "pth_daxpy"
  /\ t_pc[t] = "load"
  /\ loaded' = [loaded EXCEPT ![t] = y_vec[t_i[t]]]
  /\ t_pc' = [t_pc EXCEPT ![t] = "store"]
  /\ UNCHANGED <<prog, thread_count, total, mutex, sem, thread, main_pc, t_i,
                 reported, daxpyVars, n, mpiVars, listVars, randVars,
                 inputVars>>

\* y[i] += alpha*x[i], second half: the value read plus alpha*x[i] is
\* written to y[i]; then i++.
Store_y(t) ==
  /\ prog = "pth_daxpy"
  /\ t_pc[t] = "store"
  /\ y_vec' = [y_vec EXCEPT ![t_i[t]] = loaded[t] + alpha * x_vec[t_i[t]]]
  /\ y_stores' = [y_stores EXCEPT ![t_i[t]] = y_stores[t_i[t]] + 1]
  /\ t_i' = [t_i EXCEPT ![t] = t_i[t] + 1]
  /\ t_pc' = [t_pc EXCEPT ![t] = "for"]
  /\ UNCHANGED <<prog, thread_count, total, mutex, sem, thread, main_pc,
                 loaded, reported, x_vec, alpha, y_read, n, mpiVars, listVars,
                 randVars, inputVars>>

NextDaxpy ==
  \/ Create_Pth_daxpy
  \/ Join_Pth_daxpy
  \/ Print_product
  \/ \E t \in Threads : Daxpy_For(t)
  \/ \E t \in Threads : Load_y(t)
  \/ \E t \in Threads : Store_y(t)

SpecDaxpy == InitDaxpy /\ [][NextDaxpy]_vars

\* The indices of thread t's block.
Block(t) == {i \in 0 .. (n - 1) : My_first_i(t) <= i /\ i < My_last_i(t)}

\* y0 + alpha*x, the vector the update is to produce.
Updated == [i \in 0 .. (n - 1) |-> y_read[i] + alpha * x_vec[i]]

\* C35: block distribution of pth_daxpy.  When n is divisible by
\* thread_count, the index ranges [rank*local_n, rank*local_n + local_n) lie
\* in [0, n), are pairwise disjoint and together cover [0, n); at no time
\* are two threads updating the same y[i]; every y[i] is stored to at most
\* once, holding y0[i] before and y0[i] + alpha*x[i] after; and once the
\* threads are joined every y[i] has been stored to exactly once, so that
\* the vector printed is y0 + alpha*x.
C35_BlockDistribution ==
  (prog = "pth_daxpy" /\ n % thread_count = 0) =>
    /\ \A t \in Threads : 0 <= My_first_i(t) /\ My_last_i(t) <= n
    /\ \A i \in 0 .. (n - 1) :
         Cardinality({t \in Threads : i \in Block(t)}) = 1
    /\ \A s, t \in Threads :
         (s # t /\ t_pc[s] \in {"load", "store"} /\ t_pc[t] \in {"load", "store"})
           => t_i[s] # t_i[t]
    /\ \A i \in 0 .. (n - 1) :
         /\ y_stores[i] \in {0, 1}
         /\ y_vec[i] = IF y_stores[i] = 0 THEN y_read[i] ELSE Updated[i]
    /\ main_pc \in {"Print_vector", "return"} =>
         \A i \in 0 .. (n - 1) : y_stores[i] = 1
    /\ reported # Unset => reported = <<Updated>>

\* C35 witness: two threads have updated their halves of a vector of four
\* elements with alpha = 2 and main has printed y0 + 2*x.
C35_Witness ==
  /\ prog = "pth_daxpy" /\ thread_count = 2 /\ n = 4 /\ alpha = 2
  /\ main_pc = "return"
  /\ x_vec = [i \in 0 .. 3 |-> <<1, 2, 1, 2>>[i + 1]]
  /\ y_read = [i \in 0 .. 3 |-> <<2, 1, 1, 2>>[i + 1]]
  /\ reported = <<[i \in 0 .. 3 |-> <<4, 5, 3, 6>>[i + 1]]>>

==========================================================================
